---------------------------- MODULE Spec2Model ----------------------------
(***************************************************************************)
(* The workflow orchestrator of backend/app/agent.py: one run of           *)
(* handle_agent_workflow (plan -> task list -> step loop with bounded      *)
(* self-correction -> finalization), its two exception handlers, and the   *)
(* update channel it writes to.                                            *)
(*                                                                         *)
(* Python dicts are functions from their keys to strings, so a missing     *)
(* key is a key outside DOMAIN.  Texts the code scans (tool results) are   *)
(* strings in the state; Chars gives their characters, over which the      *)
(* substring scan of the error indicators is computed.                     *)
(***************************************************************************)
EXTENDS Integers, Sequences, FiniteSets, TLC

(* ----- program constants (agent.py:40-41) ----- *)
MAX_RETRIES == 2
MAX_WORKFLOW_STEPS == 10

(* ----- bounds of the model ----- *)
\* longest plan the planner returns in the "long" input family
MaxPlanLen == 12
\* longest plan of the "varied" input family (tasks of every kind)
MaxVariedLen == 2

(* ======================================================================= *)
(* Text: characters, lower-casing, substring search                        *)
(* ======================================================================= *)
Chars(s) ==
    CASE s = "hello" ->
           <<"h", "e", "l", "l", "o">>
      [] s = "" ->
           <<>>
      [] s = "access denied" ->
           <<"a", "c", "c", "e", "s", "s", " ", "d", "e", "n", "i", "e", "d">>
      [] s = "Exit Code: 0\nOutput:\nhello\n" ->
           <<"E", "x", "i", "t", " ", "C", "o", "d", "e", ":", " ", "0", "\n", "O", "u", "t", "p",
             "u", "t", ":", "\n", "h", "e", "l", "l", "o", "\n">>
      [] s = "Exit Code: 1\nError:\nfile not found\n" ->
           <<"E", "x", "i", "t", " ", "C", "o", "d", "e", ":", " ", "1", "\n", "E", "r", "r", "o",
             "r", ":", "\n", "f", "i", "l", "e", " ", "n", "o", "t", " ", "f", "o", "u", "n", "d",
             "\n">>
      [] s = "Error: boom" ->
           <<"E", "r", "r", "o", "r", ":", " ", "b", "o", "o", "m">>
      [] s = "Exit Code: 0\nOutput:\n" ->
           <<"E", "x", "i", "t", " ", "C", "o", "d", "e", ":", " ", "0", "\n", "O", "u", "t", "p",
             "u", "t", ":", "\n">>
      [] s = "Exit Code: 3\nOutput:\nhello\n" ->
           <<"E", "x", "i", "t", " ", "C", "o", "d", "e", ":", " ", "3", "\n", "O", "u", "t", "p",
             "u", "t", ":", "\n", "h", "e", "l", "l", "o", "\n">>
      [] s = "Invalid JSON input" ->
           <<"I", "n", "v", "a", "l", "i", "d", " ", "J", "S", "O", "N", " ", "i", "n", "p", "u",
             "t">>
      [] s = "Request TIMEOUT" ->
           <<"R", "e", "q", "u", "e", "s", "t", " ", "T", "I", "M", "E", "O", "U", "T">>
      [] s = "Error: Step execution did not produce a result." ->
           <<"E", "r", "r", "o", "r", ":", " ", "S", "t", "e", "p", " ", "e", "x", "e", "c", "u",
             "t", "i", "o", "n", " ", "d", "i", "d", " ", "n", "o", "t", " ", "p", "r", "o", "d",
             "u", "c", "e", " ", "a", " ", "r", "e", "s", "u", "l", "t", ".">>
      [] s = "Error: Unknown tool 'web_search' specified in plan." ->
           <<"E", "r", "r", "o", "r", ":", " ", "U", "n", "k", "n", "o", "w", "n", " ", "t", "o",
             "o", "l", " ", "'", "w", "e", "b", "_", "s", "e", "a", "r", "c", "h", "'", " ", "s",
             "p", "e", "c", "i", "f", "i", "e", "d", " ", "i", "n", " ", "p", "l", "a", "n", ".">>
      [] s = "Error: Unhandled exception during tool execution: Missing 'code' parameter for code_interpreter\nTraceback (most recent call last): ..." ->
           <<"E", "r", "r", "o", "r", ":", " ", "U", "n", "h", "a", "n", "d", "l", "e", "d", " ",
             "e", "x", "c", "e", "p", "t", "i", "o", "n", " ", "d", "u", "r", "i", "n", "g", " ",
             "t", "o", "o", "l", " ", "e", "x", "e", "c", "u", "t", "i", "o", "n", ":", " ", "M",
             "i", "s", "s", "i", "n", "g", " ", "'", "c", "o", "d", "e", "'", " ", "p", "a", "r",
             "a", "m", "e", "t", "e", "r", " ", "f", "o", "r", " ", "c", "o", "d", "e", "_", "i",
             "n", "t", "e", "r", "p", "r", "e", "t", "e", "r", "\n", "T", "r", "a", "c", "e", "b",
             "a", "c", "k", " ", "(", "m", "o", "s", "t", " ", "r", "e", "c", "e", "n", "t", " ",
             "c", "a", "l", "l", " ", "l", "a", "s", "t", ")", ":", " ", ".", ".", ".">>
      [] s = "Error: Unhandled exception during tool execution: Missing 'input' or 'browser_input' for browser tool\nTraceback (most recent call last): ..." ->
           <<"E", "r", "r", "o", "r", ":", " ", "U", "n", "h", "a", "n", "d", "l", "e", "d", " ",
             "e", "x", "c", "e", "p", "t", "i", "o", "n", " ", "d", "u", "r", "i", "n", "g", " ",
             "t", "o", "o", "l", " ", "e", "x", "e", "c", "u", "t", "i", "o", "n", ":", " ", "M",
             "i", "s", "s", "i", "n", "g", " ", "'", "i", "n", "p", "u", "t", "'", " ", "o", "r",
             " ", "'", "b", "r", "o", "w", "s", "e", "r", "_", "i", "n", "p", "u", "t", "'", " ",
             "f", "o", "r", " ", "b", "r", "o", "w", "s", "e", "r", " ", "t", "o", "o", "l", "\n",
             "T", "r", "a", "c", "e", "b", "a", "c", "k", " ", "(", "m", "o", "s", "t", " ", "r",
             "e", "c", "e", "n", "t", " ", "c", "a", "l", "l", " ", "l", "a", "s", "t", ")", ":",
             " ", ".", ".", ".">>
      [] s = "Error: Unhandled exception during tool execution: tool crashed\nTraceback (most recent call last): ..." ->
           <<"E", "r", "r", "o", "r", ":", " ", "U", "n", "h", "a", "n", "d", "l", "e", "d", " ",
             "e", "x", "c", "e", "p", "t", "i", "o", "n", " ", "d", "u", "r", "i", "n", "g", " ",
             "t", "o", "o", "l", " ", "e", "x", "e", "c", "u", "t", "i", "o", "n", ":", " ", "t",
             "o", "o", "l", " ", "c", "r", "a", "s", "h", "e", "d", "\n", "T", "r", "a", "c", "e",
             "b", "a", "c", "k", " ", "(", "m", "o", "s", "t", " ", "r", "e", "c", "e", "n", "t",
             " ", "c", "a", "l", "l", " ", "l", "a", "s", "t", ")", ":", " ", ".", ".", ".">>
      [] s = "Error: Unhandled exception during tool execution: WebSocketDisconnect\nTraceback (most recent call last): ..." ->
           <<"E", "r", "r", "o", "r", ":", " ", "U", "n", "h", "a", "n", "d", "l", "e", "d", " ",
             "e", "x", "c", "e", "p", "t", "i", "o", "n", " ", "d", "u", "r", "i", "n", "g", " ",
             "t", "o", "o", "l", " ", "e", "x", "e", "c", "u", "t", "i", "o", "n", ":", " ", "W",
             "e", "b", "S", "o", "c", "k", "e", "t", "D", "i", "s", "c", "o", "n", "n", "e", "c",
             "t", "\n", "T", "r", "a", "c", "e", "b", "a", "c", "k", " ", "(", "m", "o", "s", "t",
             " ", "r", "e", "c", "e", "n", "t", " ", "c", "a", "l", "l", " ", "l", "a", "s", "t",
             ")", ":", " ", ".", ".", ".">>
      [] s = "Error: Browser subprocess exceeded hard timeout (240.0s)." ->
           <<"E", "r", "r", "o", "r", ":", " ", "B", "r", "o", "w", "s", "e", "r", " ", "s", "u",
             "b", "p", "r", "o", "c", "e", "s", "s", " ", "e", "x", "c", "e", "e", "d", "e", "d",
             " ", "h", "a", "r", "d", " ", "t", "i", "m", "e", "o", "u", "t", " ", "(", "2", "4",
             "0", ".", "0", "s", ")", ".">>
      [] s = "Error: Browser helper script not found at /app/run_browser_task.py" ->
           <<"E", "r", "r", "o", "r", ":", " ", "B", "r", "o", "w", "s", "e", "r", " ", "h", "e",
             "l", "p", "e", "r", " ", "s", "c", "r", "i", "p", "t", " ", "n", "o", "t", " ", "f",
             "o", "u", "n", "d", " ", "a", "t", " ", "/", "a", "p", "p", "/", "r", "u", "n", "_",
             "b", "r", "o", "w", "s", "e", "r", "_", "t", "a", "s", "k", ".", "p", "y">>
      [] s = "Error: No browser_model specified for browse_website tool." ->
           <<"E", "r", "r", "o", "r", ":", " ", "N", "o", " ", "b", "r", "o", "w", "s", "e", "r",
             "_", "m", "o", "d", "e", "l", " ", "s", "p", "e", "c", "i", "f", "i", "e", "d", " ",
             "f", "o", "r", " ", "b", "r", "o", "w", "s", "e", "_", "w", "e", "b", "s", "i", "t",
             "e", " ", "t", "o", "o", "l", ".">>
      [] s = "Error: Unexpected failure launching or managing browser subprocess: [Errno 12] Cannot allocate memory" ->
           <<"E", "r", "r", "o", "r", ":", " ", "U", "n", "e", "x", "p", "e", "c", "t", "e", "d",
             " ", "f", "a", "i", "l", "u", "r", "e", " ", "l", "a", "u", "n", "c", "h", "i", "n",
             "g", " ", "o", "r", " ", "m", "a", "n", "a", "g", "i", "n", "g", " ", "b", "r", "o",
             "w", "s", "e", "r", " ", "s", "u", "b", "p", "r", "o", "c", "e", "s", "s", ":", " ",
             "[", "E", "r", "r", "n", "o", " ", "1", "2", "]", " ", "C", "a", "n", "n", "o", "t",
             " ", "a", "l", "l", "o", "c", "a", "t", "e", " ", "m", "e", "m", "o", "r", "y">>
      [] s = "Error: Browser subprocess failed with exit code 1. Subprocess Error: Unexpected error during agent execution: page not loaded" ->
           <<"E", "r", "r", "o", "r", ":", " ", "B", "r", "o", "w", "s", "e", "r", " ", "s", "u",
             "b", "p", "r", "o", "c", "e", "s", "s", " ", "f", "a", "i", "l", "e", "d", " ", "w",
             "i", "t", "h", " ", "e", "x", "i", "t", " ", "c", "o", "d", "e", " ", "1", ".", " ",
             "S", "u", "b", "p", "r", "o", "c", "e", "s", "s", " ", "E", "r", "r", "o", "r", ":",
             " ", "U", "n", "e", "x", "p", "e", "c", "t", "e", "d", " ", "e", "r", "r", "o", "r",
             " ", "d", "u", "r", "i", "n", "g", " ", "a", "g", "e", "n", "t", " ", "e", "x", "e",
             "c", "u", "t", "i", "o", "n", ":", " ", "p", "a", "g", "e", " ", "n", "o", "t", " ",
             "l", "o", "a", "d", "e", "d">>
      [] s = "Error: Browser subprocess failed with exit code 137." ->
           <<"E", "r", "r", "o", "r", ":", " ", "B", "r", "o", "w", "s", "e", "r", " ", "s", "u",
             "b", "p", "r", "o", "c", "e", "s", "s", " ", "f", "a", "i", "l", "e", "d", " ", "w",
             "i", "t", "h", " ", "e", "x", "i", "t", " ", "c", "o", "d", "e", " ", "1", "3", "7",
             ".">>
      [] s = "Error: Browser subprocess returned non-JSON output. Raw output: Downloading Chromium..." ->
           <<"E", "r", "r", "o", "r", ":", " ", "B", "r", "o", "w", "s", "e", "r", " ", "s", "u",
             "b", "p", "r", "o", "c", "e", "s", "s", " ", "r", "e", "t", "u", "r", "n", "e", "d",
             " ", "n", "o", "n", "-", "J", "S", "O", "N", " ", "o", "u", "t", "p", "u", "t", ".",
             " ", "R", "a", "w", " ", "o", "u", "t", "p", "u", "t", ":", " ", "D", "o", "w", "n",
             "l", "o", "a", "d", "i", "n", "g", " ", "C", "h", "r", "o", "m", "i", "u", "m", ".",
             ".", ".">>
      [] s = "Error from browser task: Unexpected error during agent execution: page not loaded" ->
           <<"E", "r", "r", "o", "r", " ", "f", "r", "o", "m", " ", "b", "r", "o", "w", "s", "e",
             "r", " ", "t", "a", "s", "k", ":", " ", "U", "n", "e", "x", "p", "e", "c", "t", "e",
             "d", " ", "e", "r", "r", "o", "r", " ", "d", "u", "r", "i", "n", "g", " ", "a", "g",
             "e", "n", "t", " ", "e", "x", "e", "c", "u", "t", "i", "o", "n", ":", " ", "p", "a",
             "g", "e", " ", "n", "o", "t", " ", "l", "o", "a", "d", "e", "d">>
      [] s = "Browser action completed with no specific output." ->
           <<"B", "r", "o", "w", "s", "e", "r", " ", "a", "c", "t", "i", "o", "n", " ", "c", "o",
             "m", "p", "l", "e", "t", "e", "d", " ", "w", "i", "t", "h", " ", "n", "o", " ", "s",
             "p", "e", "c", "i", "f", "i", "c", " ", "o", "u", "t", "p", "u", "t", ".">>

\* mutant: the indicator list without "exit code:"
ERROR_INDICATORS_noexit ==
    << <<"e", "r", "r", "o", "r", ":">>,
       <<"f", "a", "i", "l", "e", "d">>,
       <<"e", "x", "c", "e", "p", "t", "i", "o", "n">>,
       <<"t", "r", "a", "c", "e", "b", "a", "c", "k">>,
       <<"c", "o", "m", "m", "a", "n", "d", " ", "n", "o", "t", " ", "f", "o", "u", "n", "d">>,
       <<"m", "o", "d", "u", "l", "e", " ", "n", "o", "t", " ", "f", "o", "u", "n", "d">>,
       <<"p", "e", "r", "m", "i", "s", "s", "i", "o", "n", " ", "d", "e", "n", "i", "e", "d">>,
       <<"t", "i", "m", "e", "o", "u", "t">>,
       <<"i", "n", "v", "a", "l", "i", "d", " ", "j", "s", "o", "n">> >>

ERROR_INDICATORS ==
    << <<"e", "r", "r", "o", "r", ":">>,
       <<"f", "a", "i", "l", "e", "d">>,
       <<"e", "x", "c", "e", "p", "t", "i", "o", "n">>,
       <<"t", "r", "a", "c", "e", "b", "a", "c", "k">>,
       <<"e", "x", "i", "t", " ", "c", "o", "d", "e", ":">>,
       <<"c", "o", "m", "m", "a", "n", "d", " ", "n", "o", "t", " ", "f", "o", "u", "n", "d">>,
       <<"m", "o", "d", "u", "l", "e", " ", "n", "o", "t", " ", "f", "o", "u", "n", "d">>,
       <<"p", "e", "r", "m", "i", "s", "s", "i", "o", "n", " ", "d", "e", "n", "i", "e", "d">>,
       <<"t", "i", "m", "e", "o", "u", "t">>,
       <<"i", "n", "v", "a", "l", "i", "d", " ", "j", "s", "o", "n">> >>

\* the list of agent.py:157-158 (review_and_resolve)
REVIEW_ERROR_INDICATORS ==
    << <<"e", "r", "r", "o", "r", ":">>,
       <<"f", "a", "i", "l", "e", "d">>,
       <<"e", "x", "c", "e", "p", "t", "i", "o", "n">>,
       <<"t", "r", "a", "c", "e", "b", "a", "c", "k">>,
       <<"e", "x", "i", "t", " ", "c", "o", "d", "e", ":">>,
       <<"c", "o", "m", "m", "a", "n", "d", " ", "n", "o", "t", " ", "f", "o", "u", "n", "d">>,
       <<"m", "o", "d", "u", "l", "e", " ", "n", "o", "t", " ", "f", "o", "u", "n", "d">>,
       <<"p", "e", "r", "m", "i", "s", "s", "i", "o", "n", " ", "d", "e", "n", "i", "e", "d">>,
       <<"t", "i", "m", "e", "o", "u", "t">>,
       <<"i", "n", "v", "a", "l", "i", "d", " ", "j", "s", "o", "n">> >>

\* mutant: the final decision does not look for "exit code:"
FINAL_ERROR_INDICATORS_noexit ==
    << <<"e", "r", "r", "o", "r", ":">>,
       <<"f", "a", "i", "l", "e", "d">>,
       <<"e", "x", "c", "e", "p", "t", "i", "o", "n">>,
       <<"t", "r", "a", "c", "e", "b", "a", "c", "k">>,
       <<"c", "o", "m", "m", "a", "n", "d", " ", "n", "o", "t", " ", "f", "o", "u", "n", "d">>,
       <<"m", "o", "d", "u", "l", "e", " ", "n", "o", "t", " ", "f", "o", "u", "n", "d">>,
       <<"p", "e", "r", "m", "i", "s", "s", "i", "o", "n", " ", "d", "e", "n", "i", "e", "d">>,
       <<"t", "i", "m", "e", "o", "u", "t">>,
       <<"i", "n", "v", "a", "l", "i", "d", " ", "j", "s", "o", "n">> >>

\* the list of agent.py:396-397 (the final status of a step)
FINAL_ERROR_INDICATORS ==
    << <<"e", "r", "r", "o", "r", ":">>,
       <<"f", "a", "i", "l", "e", "d">>,
       <<"e", "x", "c", "e", "p", "t", "i", "o", "n">>,
       <<"t", "r", "a", "c", "e", "b", "a", "c", "k">>,
       <<"e", "x", "i", "t", " ", "c", "o", "d", "e", ":">>,
       <<"c", "o", "m", "m", "a", "n", "d", " ", "n", "o", "t", " ", "f", "o", "u", "n", "d">>,
       <<"m", "o", "d", "u", "l", "e", " ", "n", "o", "t", " ", "f", "o", "u", "n", "d">>,
       <<"p", "e", "r", "m", "i", "s", "s", "i", "o", "n", " ", "d", "e", "n", "i", "e", "d">>,
       <<"t", "i", "m", "e", "o", "u", "t">>,
       <<"i", "n", "v", "a", "l", "i", "d", " ", "j", "s", "o", "n">> >>

UpperCase == <<"A", "B", "C", "D", "E", "F", "G", "H", "I", "J", "K", "L", "M",
               "N", "O", "P", "Q", "R", "S", "T", "U", "V", "W", "X", "Y", "Z">>
LowerCase == <<"a", "b", "c", "d", "e", "f", "g", "h", "i", "j", "k", "l", "m",
               "n", "o", "p", "q", "r", "s", "t", "u", "v", "w", "x", "y", "z">>

\* str.lower() on one character
LowerChar(c) ==
    IF \E i \in 1..26 : UpperCase[i] = c
    THEN LowerCase[CHOOSE i \in 1..26 : UpperCase[i] = c]
    ELSE c

\* str.lower()
Lower(cs) == [i \in 1..Len(cs) |-> LowerChar(cs[i])]

\* Python's `needle in hay` on character sequences
Contains(hay, needle) ==
    \E off \in 0..(Len(hay) - Len(needle)) :
        \A j \in 1..Len(needle) : hay[off + j] = needle[j]

\* any(err_indicator in result.lower() for err_indicator in indicators)
IndicatorIn(indicators, result) ==
    LET low == Lower(Chars(result))
    IN  \E k \in 1..Len(indicators) : Contains(low, indicators[k])

\* is_error of the retry loop (agent.py:352-353)
HasErrorIndicator(result) == IndicatorIn(ERROR_INDICATORS, result)

\* is_error of review_and_resolve (agent.py:157-158)
ReviewIsError(result) == IndicatorIn(REVIEW_ERROR_INDICATORS, result)

\* final_status_is_error (agent.py:396-397)
FinalStatusIsError(result) == IndicatorIn(FINAL_ERROR_INDICATORS, result)

(* ======================================================================= *)
(* Python dicts and the values the planner sends                           *)
(* ======================================================================= *)
\* `k in d`
Has(d, k) == k \in DOMAIN d

\* d.get(k, default)
Get(d, k, default) == IF Has(d, k) THEN d[k] ELSE default

\* d[k] = v
SetKey(d, k, v) == [x \in (DOMAIN d) \cup {k} |-> IF x = k THEN v ELSE d[x]]

\* a JSON value that is not an object is carried as [py_scalar |-> text]
IsDict(x) == ~Has(x, "py_scalar")

\* Python None where a dict is expected (result / final_executed_task use NoneStr / NoneDict)
NoneStr == "<None>"
NoneDict == [py_none |-> "<None>"]

\* the three registered tools (agent.py:318, 327, 332)
RegisteredTools == {"shell_terminal", "code_interpreter", "browser"}

(* ----- the tasks the planner is taken to produce ----- *)
T_shell    == [tool |-> "shell_terminal", description |-> "List files", command |-> "ls",
               expected_output |-> "The names of the files", reasoning |-> "Need the listing"]
T_code     == [tool |-> "code_interpreter", code |-> "print(1)"]
T_nocode   == [tool |-> "code_interpreter", description |-> "Compute"]
T_browser  == [tool |-> "browser", description |-> "Open page", input |-> "open example.com"]
T_unknown  == [tool |-> "web_search", description |-> "Search", input |-> "tla"]
I_notool   == [description |-> "No tool here", command |-> "ls"]
I_scalar   == [py_scalar |-> "42"]

PlanTasks == {T_shell, T_code, T_nocode, T_browser, T_unknown}

(* ----- the corrected tool calls the planner is taken to produce ----- *)
K_fix      == [tool |-> "shell_terminal", description |-> "List all files", command |-> "ls -a"]
K_nodesc   == [tool |-> "shell_terminal", command |-> "ls -a"]
K_unknown  == [tool |-> "web_search", description |-> "Search instead", input |-> "tla"]
K_browser  == [tool |-> "browser", description |-> "Open page", input |-> "open example.org"]

\* A planner reply: body says what the text is once the markdown fences are
\* stripped ("empty": the reply is the empty string; "blank": only fences and
\* white space; "garbage": no JSON; "scalar", "object", "list": a JSON value),
\* items are the elements of a list or the one object.
Reply(body, items) == [body |-> body, items |-> items]

\* plans of length n in which position k holds task t and the others T_shell
PlanWith(n, k, t) == [i \in 1..n |-> IF i = k THEN t ELSE T_shell]

VariedPlans ==
    {<<>>} \cup
    { PlanWith(n, k, t) : n \in 1..MaxVariedLen, k \in 1..MaxVariedLen, t \in PlanTasks }

LongPlans == { PlanWith(n, 1, T_shell) : n \in (MAX_WORKFLOW_STEPS - 1)..MaxPlanLen }

\* what simple_prompt returns to the planning prompt (agent.py:247-251)
PlanReplies(family) ==
    IF family = "long"
    THEN { Reply("list", p) : p \in LongPlans }
    ELSE IF family = "classify"
    THEN { Reply("list", <<T_shell>>), Reply("list", <<T_shell, T_browser>>) }
    ELSE IF family = "browse"
    THEN { Reply("list", <<T_browser>>) }
    ELSE IF family = "session"
    THEN { Reply("empty", <<>>), Reply("list", <<T_shell, T_browser>>) }
    ELSE { Reply("empty", <<>>), Reply("blank", <<>>), Reply("garbage", <<>>),
           Reply("scalar", <<>>), Reply("object", <<T_shell>>), Reply("object", <<I_notool>>),
           Reply("list", <<I_scalar>>), Reply("list", <<T_shell, I_notool>>),
           Reply("delimited", <<T_shell>>), Reply("delimited_prose", <<T_shell>>) }
         \cup { Reply("list", p) : p \in VariedPlans }

\* what simple_prompt returns to a correction prompt (agent.py:174-178)
CorrectionReplies(family) ==
    IF family = "long"
    THEN { Reply("empty", <<>>) }
    ELSE IF family = "classify"
    THEN { Reply("empty", <<>>), Reply("object", <<K_fix>>), Reply("object", <<K_browser>>) }
    ELSE IF family = "browse"
    THEN { Reply("empty", <<>>), Reply("object", <<K_browser>>) }
    ELSE IF family = "session"
    THEN { Reply("empty", <<>>) }
    ELSE { Reply("empty", <<>>), Reply("garbage", <<>>), Reply("object", <<I_notool>>),
           Reply("list", <<K_fix>>),
           Reply("object", <<K_fix>>), Reply("object", <<K_nodesc>>),
           Reply("object", <<K_unknown>>) }

\* the result texts of the "classify" family: the documented format of the shell and
\* code tools (prompt_template.py:23-29) and free text as the browser tool returns it
ClassifiedResults ==
    { "hello", "Error: boom", "access denied", "Invalid JSON input", "Request TIMEOUT",
      "Exit Code: 0\nOutput:\nhello\n", "Exit Code: 0\nOutput:\n",
      "Exit Code: 1\nError:\nfile not found\n", "Exit Code: 3\nOutput:\nhello\n" }

\* mutant: the runner exits 0 whatever it printed
sys_exit_zero(result_dict) == 0

\* run_browser_task.py:197-198: sys.exit(0 if "result" in result_dict else 1)
sys_exit(result_dict) == IF "result" \in DOMAIN result_dict THEN 0 ELSE 1

\* run_browser_task.py:76-140: the dictionary _run returns, printed as JSON (195)
RunnerResults ==
    { [result |-> "hello"],
      [error  |-> "Unexpected error during agent execution: page not loaded"] }

\* what browse_website meets: no runner script, no model name, a launch that fails,
\* or a subprocess that ended with an exit code and its standard output: the
\* runner's JSON, nothing at all from a killed process, or text that is no JSON
BrowseOutcomes ==
    { [kind |-> "exited", exit_code |-> sys_exit(d), stdout |-> d] : d \in RunnerResults }
    \cup { [kind |-> "exited", exit_code |-> 137, stdout |-> [py_none |-> "<None>"]],
           [kind |-> "exited", exit_code |-> 0,
            stdout |-> [py_scalar |-> "Downloading Chromium"]],
           [kind |-> "script_missing", exit_code |-> 0, stdout |-> [py_none |-> "<None>"]],
           [kind |-> "no_model", exit_code |-> 0, stdout |-> [py_none |-> "<None>"]],
           [kind |-> "launch_failed", exit_code |-> 0, stdout |-> [py_none |-> "<None>"]] }

\* browseruse_integration.py:98-188 without the timeout: the string browse_website returns
browse_website(o) ==
    CASE o.kind = "script_missing" ->
           "Error: Browser helper script not found at /app/run_browser_task.py"
      [] o.kind = "no_model" ->
           "Error: No browser_model specified for browse_website tool."
      [] o.kind = "launch_failed" ->
           "Error: Unexpected failure launching or managing browser subprocess: [Errno 12] Cannot allocate memory"
      [] o.kind = "exited" /\ o.exit_code # 0 ->
           IF "error" \in DOMAIN o.stdout
           THEN "Error: Browser subprocess failed with exit code 1. Subprocess Error: Unexpected error during agent execution: page not loaded"
           ELSE "Error: Browser subprocess failed with exit code 137."
      [] o.kind = "exited" /\ o.exit_code = 0 ->
           IF "py_none" \in DOMAIN o.stdout
           THEN "Browser action completed with no specific output."
           ELSE IF "py_scalar" \in DOMAIN o.stdout
           THEN "Error: Browser subprocess returned non-JSON output. Raw output: Downloading Chromium..."
           ELSE IF "error" \in DOMAIN o.stdout
           THEN "Error from browser task: Unexpected error during agent execution: page not loaded"
           ELSE o.stdout["result"]

\* every outcome but a result delivered with exit code 0
IsFailureOutcome(o) ==
    ~(o.kind = "exited" /\ o.exit_code = 0 /\ "result" \in DOMAIN o.stdout)

\* what a tool collaborator returns (agent.py:325, 330, 339)
ToolResults(family) ==
    CASE family \in {"long", "session"} -> { "hello", "Error: boom" }
      [] family = "classify" -> ClassifiedResults
      [] family = "browse"   -> { browse_website(o) : o \in { b \in BrowseOutcomes :
                                                                b.kind # "no_model" } }
      [] OTHER               -> { "hello", "Exit Code: 0\nOutput:\nhello\n", "Error: boom" }

(* ======================================================================= *)
(* parse_plan and the parsing half of review_and_resolve                   *)
(* ======================================================================= *)
\* task.get('command') or task.get('code') or task.get('input')
\*   or task.get('browser_input') or ''
PrimaryParam(task) ==
    IF Get(task, "command", "") # "" THEN task["command"]
    ELSE IF Get(task, "code", "") # "" THEN task["code"]
    ELSE IF Get(task, "input", "") # "" THEN task["input"]
    ELSE Get(task, "browser_input", "")

\* f"Run {tool_name}" + (f" ({param_str})" if param_str else f" (step {idx+1})"),
\* tabulated for the tools and parameters of the tasks above (i is idx+1)
RunDescription(tool_name, param_str, i) ==
    CASE tool_name = "code_interpreter" /\ param_str = "print(1)"
            -> "Run code_interpreter (print(1))"
      [] tool_name = "code_interpreter" /\ param_str = "" /\ i = 1
            -> "Run code_interpreter (step 1)"
      [] tool_name = "code_interpreter" /\ param_str = "" /\ i = 2
            -> "Run code_interpreter (step 2)"
      [] OTHER
            -> "Run shell_terminal (ls)"

\* the default description of a task that has none (agent.py:127-133)
WithDescription(task, i) ==
    IF ~Has(task, "description") \/ Get(task, "description", "") = ""
    THEN SetKey(task, "description",
                RunDescription(Get(task, "tool", "unknown_tool"), PrimaryParam(task), i))
    ELSE task

\* mutant: entries are not checked
ValidateTasks_lenient(items) ==
    [ok |-> TRUE, tasks |-> [i \in 1..Len(items) |-> WithDescription(items[i], i)]]

\* the validation loop (agent.py:119-138); ok is FALSE where the code raises ValueError
ValidateTasks(items) ==
    IF \A i \in 1..Len(items) : IsDict(items[i]) /\ Has(items[i], "tool")
    THEN [ok |-> TRUE, tasks |-> [i \in 1..Len(items) |-> WithDescription(items[i], i)]]
    ELSE [ok |-> FALSE, tasks |-> <<>>]

\* replies that follow the output format of prompt_template.py:58-59: "delimited" is
\* reasoning text, the closing </thinking_process> tag, then the plan list (items);
\* "delimited_prose" is reasoning text holding the plan list (items), the closing tag,
\* then a sentence that is no list.  Neither text is JSON as a whole.
DelimitedBodies == {"delimited", "delimited_prose"}

\* repair_json (agent.py:13-20, 89): the stand-in defined when json-repair is not
\* installed returns its argument; the library, which is not part of the repository,
\* may instead dig the list out of the surrounding text
repair_json(reply) ==
    IF reply.body \in DelimitedBodies
    THEN {reply, [body |-> "list", items |-> reply.items]}
    ELSE {reply}

\* parse_plan (agent.py:74-144): fences stripped, repair_json, json.loads, then
\* the structure check; ok is FALSE where it raises ValueError
parse_plan(reply) ==
    CASE reply.body \in {"empty", "blank"} -> [ok |-> FALSE, tasks |-> <<>>]
      [] reply.body = "garbage"            -> [ok |-> FALSE, tasks |-> <<>>]
      [] reply.body = "scalar"             -> [ok |-> FALSE, tasks |-> <<>>]
      [] reply.body \in DelimitedBodies    -> [ok |-> FALSE, tasks |-> <<>>]
      [] reply.body = "object" ->
            IF Has(reply.items[1], "tool")
            THEN ValidateTasks(<<reply.items[1]>>)
            ELSE [ok |-> FALSE, tasks |-> <<>>]
      [] reply.body = "list"               -> ValidateTasks(reply.items)

\* mutant: the task list is built in reverse order
InitialTasks_reversed(raw_tasks) ==
    [i \in 1..Len(raw_tasks) |->
        [description         |-> raw_tasks[Len(raw_tasks) + 1 - i]["description"],
         status              |-> "pending",
         original_task       |-> raw_tasks[Len(raw_tasks) + 1 - i],
         result              |-> NoneStr,
         final_executed_task |-> NoneDict]]

\* the task list built from the validated plan (agent.py:260-269)
InitialTasks(raw_tasks) ==
    [i \in 1..Len(raw_tasks) |->
        [description         |-> raw_tasks[i]["description"],
         status              |-> "pending",
         original_task       |-> raw_tasks[i],
         result              |-> NoneStr,
         final_executed_task |-> NoneDict]]

\* mutant: the attempt number is not looked at
ReviewAsksPlanner_always(result, att) == ReviewIsError(result)

\* is_error and attempt < MAX_RETRIES (agent.py:157-160): the planner is asked
ReviewAsksPlanner(result, att) == ReviewIsError(result) /\ att < MAX_RETRIES

\* mutant: an object without tool is taken as a correction
ParseCorrection_lenient(reply, task) ==
    IF reply.body = "object"
    THEN [ok |-> TRUE, task |-> SetKey(reply.items[1], "description", "Compute")]
    ELSE [ok |-> FALSE, task |-> NoneDict]

\* review_and_resolve once the planner replied (agent.py:180-205):
\* ok is FALSE where it returns None
ParseCorrection(reply, task) ==
    IF reply.body = "object" /\ Has(reply.items[1], "tool")
    THEN LET corrected_task == reply.items[1]
         IN  [ok   |-> TRUE,
              task |-> IF ~Has(corrected_task, "description")
                          \/ Get(corrected_task, "description", "") = ""
                       THEN SetKey(corrected_task, "description",
                                   Get(task, "description", "Execute tool (corrected)"))
                       ELSE corrected_task]
    ELSE [ok |-> FALSE, task |-> NoneDict]

(* ======================================================================= *)
(* State                                                                   *)
(* ======================================================================= *)
VARIABLES
    family,                        \* which bounded family of inputs this run draws from
    pc,                            \* where handle_agent_workflow stands
    ws_connected,                  \* the client of the update channel is still there
    tasks_with_status,             \* agent.py:220, 260
    final_agent_message,           \* agent.py:221
    workflow_stopped_prematurely,  \* agent.py:222
    idx,                           \* loop index of agent.py:285, counted from 1
    attempt,                       \* loop index of agent.py:309
    executed_step_count,           \* agent.py:283
    last_successful_result,        \* agent.py:282
    current_task_dict,             \* agent.py:304
    step_result,                   \* agent.py:305
    final_task_executed_this_step, \* agent.py:306
    tool_calls,                    \* per task: tool collaborator invocations so far
    correction_requests,           \* per task: correction prompts sent to the planner so far
    planner_calls,                 \* simple_prompt calls so far (planning and correction)
    plan_json,                     \* agent.py:247: the planner's reply to the planning prompt
    corrected_json_str,            \* agent.py:174: the planner's latest reply to a correction prompt
    last_call,                     \* the latest tool invocation: step, task, context, result
    task_list_update,              \* payload of the latest TASK_LIST_UPDATE that was sent
    ws_log,                        \* status and error lines sent (agent.py:413, 426, 443, 450)
    environ,                       \* os.environ["BROWSER_AGENT_INTERNAL_MODEL"], shared by the process (main.py:69)
    subprocess,                    \* the browser subprocess of the invocation in flight
    updates_sent,                  \* TASK_LIST_UPDATE messages delivered so far
    selected_model,                \* agent.py:215: the planner model main.py:77 passes for this request
    simple_prompt_model,           \* the model= argument of the latest simple_prompt call (agent.py:175, 248)
    session,                       \* where websocket_endpoint stands (main.py:43-79)
    inbox,                         \* messages the client sent that receive_text has not returned yet
    served                         \* messages receive_text has returned (main.py:45), in that order

vars == <<family, session, inbox, served, selected_model, simple_prompt_model, environ, subprocess, updates_sent, pc, ws_connected, tasks_with_status, final_agent_message,
          workflow_stopped_prematurely, idx, attempt, executed_step_count,
          last_successful_result, current_task_dict, step_result,
          final_task_executed_this_step, tool_calls, correction_requests,
          planner_calls, plan_json, corrected_json_str, last_call, task_list_update, ws_log>>

\* the fixed texts of the messages
MSG_DEFAULT    == "Agent: Workflow finished."
MSG_NO_STEPS   == "Agent: No actionable steps planned."
MSG_LIMIT      == "Agent: Workflow stopped after reaching the limit of executed steps."
MSG_FAILED     == "Agent Error: Workflow failed at step."
MSG_COMPLETED  == "Agent: Workflow completed successfully."
MSG_PLANNING   == "Agent Error: Workflow failed during planning."
MSG_UNEXPECTED == "Agent Error: Workflow failed unexpectedly."
LINE_PLAN_ERROR == "Agent Error: Failed during planning or plan parsing"
LINE_FAULT      == "Agent Error: An unexpected error occurred during the workflow"

NO_CONTEXT == "No output from previous steps."
DEFAULT_STEP_RESULT == "Error: Step execution did not produce a result."
InFlight == "<in flight>"
Raised   == "<raised>"

NoUpdate == <<[description |-> "<no update>", status |-> "<no update>"]>>
NoReply  == [body |-> "<none>", items |-> <<>>]
NoCall   == [step |-> 0, task |-> NoneDict, context |-> NoneStr, browser_model |-> NoneStr,
             result |-> NoneStr]

\* llm_handler.PLANNING_TOOLING_MODEL: the planner model the process is configured with
PLANNING_TOOLING_MODEL == "<PLANNING_TOOLING_MODEL>"

\* main.py:56: a planner_model the client names in its request
CLIENT_PLANNER_MODEL == "deepseek-r1:14b"

\* main.py:38, 56, 77: the values selected_model takes: the configured model when
\* the request names none, or the one the request names; requests that name one
\* are drawn from the families with short plans
PlannerModels(f) ==
    IF f \in {"classify", "browse"} THEN {PLANNING_TOOLING_MODEL, CLIENT_PLANNER_MODEL}
    ELSE {PLANNING_TOOLING_MODEL}

\* main.py:38-40, 57: the browser model this session selected for its request
current_browser_model == "qwen2.5:7b"

\* main.py:57 in another connection's handler: the browser model that session selected
OTHER_BROWSER_MODEL == "llama3.1:8b"

\* browseruse_integration.py:126, 178: the result of an invocation that timed out
TIMEOUT_RESULT == "Error: Browser subprocess exceeded hard timeout (240.0s)."

\* the text the inner handler stores (agent.py:386-387), by what was raised
UnhandledResult(what) ==
    CASE what = "code" ->
           "Error: Unhandled exception during tool execution: Missing 'code' parameter for code_interpreter\nTraceback (most recent call last): ..."
      [] what = "input" ->
           "Error: Unhandled exception during tool execution: Missing 'input' or 'browser_input' for browser tool\nTraceback (most recent call last): ..."
      [] what = "tool" ->
           "Error: Unhandled exception during tool execution: tool crashed\nTraceback (most recent call last): ..."
      [] what = "channel" ->
           "Error: Unhandled exception during tool execution: WebSocketDisconnect\nTraceback (most recent call last): ..."

\* tasks_for_ui of send_task_update (agent.py:52-59)
Payload(tasks) ==
    [i \in 1..Len(tasks) |-> [description |-> tasks[i].description, status |-> tasks[i].status]]

\* mutant: the update is never sent
send_task_update_dropped(tasks) == task_list_update

\* send_task_update (agent.py:48-69): what the client last received afterwards;
\* a failing send is swallowed there
send_task_update(tasks) == IF ws_connected THEN Payload(tasks) ELSE task_list_update

\* agent.py:64: one more update has gone out, unless the send failed (66-69)
CountUpdate == IF ws_connected THEN updates_sent + 1 ELSE updates_sent

Init ==
    /\ family \in {"varied", "long", "classify", "browse"}
    /\ pc = "start"
    /\ ws_connected = TRUE
    /\ tasks_with_status = <<>>
    /\ final_agent_message = MSG_DEFAULT
    /\ workflow_stopped_prematurely = FALSE
    /\ idx = 0
    /\ attempt = 0
    /\ executed_step_count = 0
    /\ last_successful_result = NoneStr
    /\ current_task_dict = NoneDict
    /\ step_result = NoneStr
    /\ final_task_executed_this_step = NoneDict
    /\ tool_calls = <<>>
    /\ correction_requests = <<>>
    /\ planner_calls = 0
    /\ plan_json = NoReply
    /\ corrected_json_str = NoReply
    /\ last_call = NoCall
    /\ task_list_update = NoUpdate
    /\ ws_log = <<>>
    /\ environ = current_browser_model
    /\ subprocess = "none"
    /\ updates_sent = 0
    /\ selected_model \in PlannerModels(family)
    /\ simple_prompt_model = NoneStr
    /\ session = "workflow"
    /\ inbox = <<>>
    /\ served = <<>>

(* ======================================================================= *)
(* handle_agent_workflow                                                   *)
(* ======================================================================= *)
\* agent.py:226: the first line sent; a send on a dropped connection raises
StartPlanning ==
    /\ pc = "start"
    /\ pc' = IF ws_connected THEN "planning" ELSE "except_Exception"
    /\ UNCHANGED <<family, session, inbox, served, selected_model, environ, subprocess, ws_connected, tasks_with_status, final_agent_message,
                   workflow_stopped_prematurely, idx, attempt, executed_step_count,
                   last_successful_result, current_task_dict, step_result,
                   final_task_executed_this_step, tool_calls, correction_requests,
                   planner_calls, simple_prompt_model, plan_json, corrected_json_str, last_call, task_list_update, updates_sent, ws_log>>

\* mutant: an empty plan is run like any other
NoActionableSteps_never(tasks) == FALSE

\* agent.py:273: if not tasks_with_status
NoActionableSteps(tasks) == tasks = <<>>

\* agent.py:228, 248: the model the planning prompt is sent to
planning_model_to_use == selected_model

\* agent.py:175: the model the correction prompt is sent to
review_model == PLANNING_TOOLING_MODEL

\* agent.py:247-279: the planner replies, the plan is parsed, the task list is built
PlannerReturns ==
    /\ pc = "planning"
    /\ \E reply \in PlanReplies(family) : \E repaired_json_string \in repair_json(reply) :
         LET parsed == parse_plan(repaired_json_string)
             tasks  == InitialTasks(parsed.tasks)
         IN  /\ planner_calls' = planner_calls + 1
             /\ simple_prompt_model' = planning_model_to_use
             /\ plan_json' = reply
             /\ IF reply.body = "empty" \/ ~parsed.ok
                THEN /\ pc' = "except_ValueError"
                     /\ UNCHANGED <<tasks_with_status, task_list_update, updates_sent, tool_calls,
                                    correction_requests, final_agent_message, idx,
                                    executed_step_count, last_successful_result>>
                ELSE /\ tasks_with_status' = tasks
                     /\ task_list_update' = send_task_update(tasks)
                     /\ updates_sent' = CountUpdate
                     /\ tool_calls' = [i \in 1..Len(tasks) |-> 0]
                     /\ correction_requests' = [i \in 1..Len(tasks) |-> 0]
                     /\ IF ~ws_connected
                        THEN /\ pc' = "except_Exception"
                             /\ UNCHANGED <<final_agent_message, idx, executed_step_count,
                                            last_successful_result>>
                        ELSE IF NoActionableSteps(tasks)
                        THEN /\ pc' = "returned"
                             /\ final_agent_message' = MSG_NO_STEPS
                             /\ UNCHANGED <<idx, executed_step_count, last_successful_result>>
                        ELSE /\ pc' = "loop"
                             /\ idx' = 1
                             /\ executed_step_count' = 0
                             /\ last_successful_result' = NO_CONTEXT
                             /\ UNCHANGED final_agent_message
    /\ UNCHANGED <<family, session, inbox, served, selected_model, environ, subprocess, ws_connected, workflow_stopped_prematurely, attempt,
                   current_task_dict, step_result, final_task_executed_this_step,
                   last_call, corrected_json_str, ws_log>>

\* mutant: the budget check lets one more step through
StepLimitReached_late(count) == count > MAX_WORKFLOW_STEPS

\* mutant: the budget check is missing
StepLimitReached_never(count) == FALSE

\* agent.py:288: the step budget is exhausted
StepLimitReached(count) == count >= MAX_WORKFLOW_STEPS

\* agent.py:285-306: the head of the step loop
BeginStep ==
    /\ pc = "loop"
    /\ IF idx > Len(tasks_with_status)
       THEN \* the for loop is exhausted
            /\ pc' = "finalize"
            /\ UNCHANGED <<tasks_with_status, task_list_update, updates_sent, final_agent_message,
                           workflow_stopped_prematurely, attempt, current_task_dict,
                           step_result, final_task_executed_this_step>>
       ELSE IF StepLimitReached(executed_step_count)
       THEN IF ~ws_connected
            THEN \* the send of agent.py:289 raises
                 /\ pc' = "except_Exception"
                 /\ UNCHANGED <<tasks_with_status, task_list_update, updates_sent, final_agent_message,
                                workflow_stopped_prematurely, attempt, current_task_dict,
                                step_result, final_task_executed_this_step>>
            ELSE LET tasks == [i \in 1..Len(tasks_with_status) |->
                                  IF i >= idx
                                  THEN [tasks_with_status[i] EXCEPT !.status = "pending"]
                                  ELSE tasks_with_status[i]]
                 IN  /\ final_agent_message' = MSG_LIMIT
                     /\ workflow_stopped_prematurely' = TRUE
                     /\ tasks_with_status' = tasks
                     /\ task_list_update' = send_task_update(tasks)
                     /\ updates_sent' = CountUpdate
                     /\ pc' = "finalize"
                     /\ UNCHANGED <<attempt, current_task_dict, step_result,
                                    final_task_executed_this_step>>
       ELSE LET tasks == [tasks_with_status EXCEPT ![idx].status = "running"]
            IN  /\ tasks_with_status' = tasks
                /\ task_list_update' = send_task_update(tasks)
                /\ updates_sent' = CountUpdate
                /\ IF ~ws_connected
                   THEN \* the send of agent.py:301 raises
                        /\ pc' = "except_Exception"
                        /\ UNCHANGED <<attempt, current_task_dict, step_result,
                                       final_task_executed_this_step>>
                   ELSE /\ current_task_dict' = tasks_with_status[idx].original_task
                        /\ step_result' = DEFAULT_STEP_RESULT
                        /\ final_task_executed_this_step' = tasks_with_status[idx].original_task
                        /\ attempt' = 0
                        /\ pc' = "attempt"
                /\ UNCHANGED <<final_agent_message, workflow_stopped_prematurely>>
    /\ UNCHANGED <<family, session, inbox, served, selected_model, environ, subprocess, ws_connected, idx, executed_step_count, last_successful_result,
                   tool_calls, correction_requests, planner_calls, simple_prompt_model, plan_json, corrected_json_str, last_call, ws_log>>

\* mutant: any tool name reaches a collaborator
ToolRoute_any(task) ==
    LET tool == Get(task, "tool", NoneStr)
        inp  == IF Get(task, "input", "") # "" THEN task["input"]
                ELSE Get(task, "browser_input", "")
    IN  CASE tool = "code_interpreter" -> IF Get(task, "code", "") = "" THEN "code" ELSE "invoke"
          [] tool = "browser"          -> IF inp = "" THEN "input" ELSE "invoke"
          [] OTHER                     -> "invoke"

\* agent.py:318-348: where the work copy of the task is routed.  "invoke": a tool
\* collaborator is called; "code", "input": the ValueError of 329 / 334 is raised;
\* "unknown": the else branch of 345
ToolRoute(task) ==
    LET tool == Get(task, "tool", NoneStr)
        inp  == IF Get(task, "input", "") # "" THEN task["input"]
                ELSE Get(task, "browser_input", "")
    IN  CASE tool = "shell_terminal"   -> "invoke"
          [] tool = "code_interpreter" -> IF Get(task, "code", "") = "" THEN "code" ELSE "invoke"
          [] tool = "browser"          -> IF inp = "" THEN "input" ELSE "invoke"
          [] OTHER                     -> "unknown"

\* agent.py:336: os.getenv("BROWSER_AGENT_INTERNAL_MODEL", ...), read at each browser step
os_getenv == environ

\* mutant: the browser is handed the result of the step under way
Dispatch_stalecontext ==
    /\ pc = "attempt"
    /\ LET route == ToolRoute(current_task_dict)
       IN  IF ~ws_connected
           THEN \* the send of agent.py:313, outside the inner try, raises
                /\ pc' = "except_Exception"
                /\ UNCHANGED <<step_result, tool_calls, last_call, subprocess>>
           ELSE IF route = "invoke"
           THEN /\ tool_calls' = [tool_calls EXCEPT ![idx] = @ + 1]
                /\ last_call' = [step    |-> idx,
                                 task    |-> current_task_dict,
                                 context |-> IF current_task_dict["tool"] = "browser"
                                             THEN step_result ELSE NoneStr,
                                 browser_model |-> IF current_task_dict["tool"] = "browser"
                                                   THEN os_getenv ELSE NoneStr,
                                 result  |-> InFlight]
                /\ subprocess' = IF current_task_dict["tool"] = "browser"
                                 THEN "running" ELSE "none"
                /\ pc' = "tool_running"
                /\ UNCHANGED step_result
           ELSE IF route = "unknown"
           THEN \* current_attempt_result is set, step_result is not; break
                /\ pc' = "after_loop"
                /\ UNCHANGED <<step_result, tool_calls, last_call, subprocess>>
           ELSE \* ValueError for a missing parameter, caught at agent.py:384; break
                /\ step_result' = UnhandledResult(route)
                /\ pc' = "after_loop"
                /\ UNCHANGED <<tool_calls, last_call, subprocess>>
    /\ UNCHANGED <<family, session, inbox, served, selected_model, environ, ws_connected, tasks_with_status, final_agent_message,
                   workflow_stopped_prematurely, idx, attempt, executed_step_count,
                   last_successful_result, current_task_dict,
                   final_task_executed_this_step, correction_requests, planner_calls, simple_prompt_model, plan_json, corrected_json_str,
                   task_list_update, updates_sent, ws_log>>

\* agent.py:309-348, 384-390: one pass of the retry loop up to the tool call
Dispatch ==
    /\ pc = "attempt"
    /\ LET route == ToolRoute(current_task_dict)
       IN  IF ~ws_connected
           THEN \* the send of agent.py:313, outside the inner try, raises
                /\ pc' = "except_Exception"
                /\ UNCHANGED <<step_result, tool_calls, last_call, subprocess>>
           ELSE IF route = "invoke"
           THEN /\ tool_calls' = [tool_calls EXCEPT ![idx] = @ + 1]
                /\ last_call' = [step    |-> idx,
                                 task    |-> current_task_dict,
                                 context |-> IF current_task_dict["tool"] = "browser"
                                             THEN last_successful_result ELSE NoneStr,
                                 browser_model |-> IF current_task_dict["tool"] = "browser"
                                                   THEN os_getenv ELSE NoneStr,
                                 result  |-> InFlight]
                /\ subprocess' = IF current_task_dict["tool"] = "browser"
                                 THEN "running" ELSE "none"
                /\ pc' = "tool_running"
                /\ UNCHANGED step_result
           ELSE IF route = "unknown"
           THEN \* current_attempt_result is set, step_result is not; break
                /\ pc' = "after_loop"
                /\ UNCHANGED <<step_result, tool_calls, last_call, subprocess>>
           ELSE \* ValueError for a missing parameter, caught at agent.py:384; break
                /\ step_result' = UnhandledResult(route)
                /\ pc' = "after_loop"
                /\ UNCHANGED <<tool_calls, last_call, subprocess>>
    /\ UNCHANGED <<family, session, inbox, served, selected_model, environ, ws_connected, tasks_with_status, final_agent_message,
                   workflow_stopped_prematurely, idx, attempt, executed_step_count,
                   last_successful_result, current_task_dict,
                   final_task_executed_this_step, correction_requests, planner_calls, simple_prompt_model, plan_json, corrected_json_str,
                   task_list_update, updates_sent, ws_log>>

\* browseruse_integration.py:64-84: the hard timeout of wait_for expires while the
\* browser subprocess is still running; process.kill() (79)
SubprocessTimeout ==
    /\ pc = "tool_running"
    /\ subprocess = "running"
    /\ subprocess' = "killed"
    /\ UNCHANGED <<family, session, inbox, served, selected_model, environ, updates_sent, pc, ws_connected, tasks_with_status,
                   final_agent_message, workflow_stopped_prematurely, idx, attempt,
                   executed_step_count, last_successful_result, current_task_dict, step_result,
                   final_task_executed_this_step, tool_calls, correction_requests,
                   planner_calls, simple_prompt_model, plan_json, corrected_json_str, last_call, task_list_update,
                   ws_log>>

\* mutant: the killed process is not waited for
SubprocessReaped_skipped ==
    /\ pc = "tool_running"
    /\ subprocess = "killed"
    /\ UNCHANGED subprocess
    /\ \E r \in {TIMEOUT_RESULT} :
         /\ last_call' = [last_call EXCEPT !.result = r]
         /\ step_result' = r
         /\ pc' = "after_loop"
    /\ UNCHANGED <<family, session, inbox, served, selected_model, environ, updates_sent, ws_connected, tasks_with_status,
                   final_agent_message, workflow_stopped_prematurely, idx, attempt,
                   executed_step_count, last_successful_result, current_task_dict,
                   final_task_executed_this_step, tool_calls, correction_requests,
                   planner_calls, simple_prompt_model, plan_json, corrected_json_str, task_list_update,
                   ws_log>>

\* browseruse_integration.py:80: await process.wait() returns; the TimeoutError is
\* re-raised (84) to browse_website
SubprocessReaped ==
    /\ pc = "tool_running"
    /\ subprocess = "killed"
    /\ subprocess' = "reaped"
    /\ UNCHANGED <<family, session, inbox, served, selected_model, environ, updates_sent, pc, ws_connected, tasks_with_status,
                   final_agent_message, workflow_stopped_prematurely, idx, attempt,
                   executed_step_count, last_successful_result, current_task_dict, step_result,
                   final_task_executed_this_step, tool_calls, correction_requests,
                   planner_calls, simple_prompt_model, plan_json, corrected_json_str, last_call, task_list_update,
                   ws_log>>

\* what the invocation in flight can return: after the timeout the text of
\* browseruse_integration.py:177-181, otherwise any result of the tool
InvocationResults ==
    IF subprocess = "reaped" THEN {TIMEOUT_RESULT} ELSE ToolResults(family)

\* agent.py:351-365, 377-382 and review_and_resolve up to its planner call (157-178)
ToolReturns ==
    /\ pc = "tool_running"
    /\ subprocess # "killed"
    /\ subprocess' = IF subprocess = "running" THEN "exited" ELSE subprocess
    /\ \E r \in InvocationResults :
         /\ last_call' = [last_call EXCEPT !.result = IF subprocess = "reaped" /\ ~ws_connected
                                                       THEN Raised ELSE r]
         /\ IF ~ws_connected
            THEN \* the send of 356 raises, the handler of 384 stores it, its send (388) raises
                 /\ step_result' = UnhandledResult("channel")
                 /\ pc' = "except_Exception"
                 /\ UNCHANGED <<final_task_executed_this_step, planner_calls, simple_prompt_model,
                                correction_requests>>
            ELSE IF ~HasErrorIndicator(r)
            THEN /\ step_result' = r
                 /\ final_task_executed_this_step' = current_task_dict
                 /\ pc' = "after_loop"
                 /\ UNCHANGED <<planner_calls, simple_prompt_model, correction_requests>>
            ELSE IF ReviewAsksPlanner(r, attempt)
            THEN /\ step_result' = r
                 /\ planner_calls' = planner_calls + 1
                 /\ correction_requests' = [correction_requests EXCEPT ![idx] = @ + 1]
                 /\ simple_prompt_model' = review_model
                 /\ pc' = "reviewing"
                 /\ UNCHANGED final_task_executed_this_step
            ELSE \* review_and_resolve returns None (206-210); break at 382
                 /\ step_result' = r
                 /\ pc' = "after_loop"
                 /\ UNCHANGED <<final_task_executed_this_step, planner_calls, simple_prompt_model,
                                correction_requests>>
    /\ UNCHANGED <<family, session, inbox, served, selected_model, environ, ws_connected, tasks_with_status, final_agent_message,
                   workflow_stopped_prematurely, idx, attempt, executed_step_count,
                   last_successful_result, current_task_dict, tool_calls, plan_json, corrected_json_str,
                   task_list_update, updates_sent, ws_log>>

\* mutant: a raising tool is tried again while attempts remain
ToolRaises_retried ==
    /\ pc = "tool_running"
    /\ subprocess = "none"
    /\ last_call' = [last_call EXCEPT !.result = Raised]
    /\ step_result' = UnhandledResult("tool")
    /\ pc' = IF ~ws_connected THEN "except_Exception"
             ELSE IF attempt < MAX_RETRIES THEN "attempt" ELSE "after_loop"
    /\ attempt' = IF ws_connected /\ attempt < MAX_RETRIES THEN attempt + 1 ELSE attempt
    /\ UNCHANGED <<family, session, inbox, served, selected_model, environ, subprocess, ws_connected, tasks_with_status, final_agent_message,
                   workflow_stopped_prematurely, idx, executed_step_count,
                   last_successful_result, current_task_dict,
                   final_task_executed_this_step, tool_calls, correction_requests,
                   planner_calls, simple_prompt_model, plan_json, corrected_json_str, task_list_update, updates_sent, ws_log>>

\* agent.py:384-390: the tool collaborator raises
ToolRaises ==
    /\ pc = "tool_running"
    /\ subprocess = "none"
    /\ last_call' = [last_call EXCEPT !.result = Raised]
    /\ step_result' = UnhandledResult("tool")
    /\ pc' = IF ws_connected THEN "after_loop" ELSE "except_Exception"
    /\ UNCHANGED <<family, session, inbox, served, selected_model, environ, subprocess, ws_connected, tasks_with_status, final_agent_message,
                   workflow_stopped_prematurely, idx, attempt, executed_step_count,
                   last_successful_result, current_task_dict,
                   final_task_executed_this_step, tool_calls, correction_requests,
                   planner_calls, simple_prompt_model, plan_json, corrected_json_str, task_list_update, updates_sent, ws_log>>

\* mutant: every attempt is taken for the first one
NextAttempt_first(att) == 0

\* mutant: the loop variable never advances
NextAttempt_stuck(att) == att

\* for attempt in range(MAX_RETRIES + 1) (agent.py:309): the next value of the
\* loop variable, and whether the loop goes on with it
NextAttempt(att) == att + 1

RetryLoopContinues(next_attempt) == next_attempt <= MAX_RETRIES

\* mutant: every adopted correction is taken to change the description
DescriptionChanged_always(corrected, task_info) == TRUE

\* agent.py:370: the correction carries a description that differs from the displayed one
DescriptionChanged(corrected, task_info) ==
    /\ Has(corrected, "description")
    /\ corrected["description"] # task_info.description

\* mutant: the correction also replaces the task's original_task record
ApplyDescription_overwrites(tasks, i, corrected) ==
    [tasks EXCEPT ![i].description = corrected["description"], ![i].original_task = corrected]

\* agent.py:371: the displayed description of the step becomes the correction's
ApplyDescription(tasks, i, corrected) ==
    [tasks EXCEPT ![i].description = corrected["description"]]

\* agent.py:180-205 (the planner's correction is parsed) and 367-382 (it is adopted or not)
CorrectionReturns ==
    /\ pc = "reviewing"
    /\ \E reply \in CorrectionReplies(family) :
         LET parsed == ParseCorrection(reply, current_task_dict)
             corrected_task_dict == parsed.task
         IN  /\ corrected_json_str' = reply
             /\ IF ~ws_connected
                THEN \* the sends of 181 / 200 / 204 raise out of review_and_resolve; 384, 388
                     /\ step_result' = UnhandledResult("channel")
                     /\ pc' = "except_Exception"
                     /\ UNCHANGED <<tasks_with_status, task_list_update, updates_sent, current_task_dict,
                                    final_task_executed_this_step, attempt>>
                ELSE IF ~parsed.ok
                THEN \* no correction: break at 382
                     /\ pc' = "after_loop"
                     /\ UNCHANGED <<tasks_with_status, task_list_update, updates_sent, current_task_dict,
                                    final_task_executed_this_step, attempt, step_result>>
                ELSE /\ IF DescriptionChanged(corrected_task_dict, tasks_with_status[idx])
                        THEN LET tasks == ApplyDescription(tasks_with_status, idx,
                                                           corrected_task_dict)
                             IN  /\ tasks_with_status' = tasks
                                 /\ task_list_update' = send_task_update(tasks)
                                 /\ updates_sent' = CountUpdate
                        ELSE UNCHANGED <<tasks_with_status, task_list_update, updates_sent>>
                     /\ current_task_dict' = corrected_task_dict
                     /\ final_task_executed_this_step' = corrected_task_dict
                     /\ attempt' = NextAttempt(attempt)
                     /\ pc' = IF RetryLoopContinues(NextAttempt(attempt))
                              THEN "attempt" ELSE "after_loop"
                     /\ UNCHANGED step_result
    /\ UNCHANGED <<family, session, inbox, served, selected_model, environ, subprocess, ws_connected, final_agent_message, workflow_stopped_prematurely,
                   idx, executed_step_count, last_successful_result, tool_calls,
                   correction_requests, planner_calls, simple_prompt_model, plan_json, last_call, ws_log>>

\* mutant: every finished step is called done
FinalStatus_alwaysdone(result) == "done"

\* mutant: a successful step is left running
FinalStatus_stale(result) == IF FinalStatusIsError(result) THEN "error" ELSE "running"

\* mutant: the verdict is inverted
FinalStatus_swapped(result) == IF FinalStatusIsError(result) THEN "done" ELSE "error"

\* agent.py:396-398: the status a finished step gets
FinalStatus(result) == IF FinalStatusIsError(result) THEN "error" ELSE "done"

\* mutant: the loop stops after a step that is done and goes on after a failed one
StopsWorkflow_ondone(final_status) == final_status = "done"

\* mutant: the loop goes on after a failed step
StopsWorkflow_never(final_status) == FALSE

\* agent.py:411: a step that ended in error stops the workflow
StopsWorkflow(final_status) == final_status = "error"

\* agent.py:392-419: after the retry loop
FinishStep ==
    /\ pc = "after_loop"
    /\ LET final_status == FinalStatus(step_result)
           tasks == [tasks_with_status EXCEPT
                        ![idx].status = final_status,
                        ![idx].final_executed_task = final_task_executed_this_step,
                        ![idx].result = step_result]
       IN  /\ executed_step_count' = executed_step_count + 1
           /\ tasks_with_status' = tasks
           /\ task_list_update' = send_task_update(tasks)
           /\ updates_sent' = CountUpdate
           /\ IF ~ws_connected
              THEN \* the send of 407 raises
                   /\ pc' = "except_Exception"
                   /\ UNCHANGED <<final_agent_message, workflow_stopped_prematurely,
                                  last_successful_result, idx, ws_log>>
              ELSE IF StopsWorkflow(final_status)
              THEN /\ final_agent_message' = MSG_FAILED
                   /\ ws_log' = Append(ws_log, MSG_FAILED)
                   /\ workflow_stopped_prematurely' = TRUE
                   /\ pc' = "finalize"
                   /\ UNCHANGED <<last_successful_result, idx>>
              ELSE /\ last_successful_result' = step_result
                   /\ idx' = idx + 1
                   /\ pc' = "loop"
                   /\ UNCHANGED <<final_agent_message, workflow_stopped_prematurely, ws_log>>
    /\ UNCHANGED <<family, session, inbox, served, selected_model, environ, subprocess, ws_connected, attempt, current_task_dict, step_result,
                   final_task_executed_this_step, tool_calls, correction_requests,
                   planner_calls, simple_prompt_model, plan_json, corrected_json_str, last_call>>

\* mutant: the run is called completed whatever happened
Finalize_completed ==
    /\ pc = "finalize"
    /\ final_agent_message' = MSG_COMPLETED
    /\ IF ws_connected
       THEN /\ ws_log' = Append(ws_log, final_agent_message')
            /\ pc' = "returned"
       ELSE /\ pc' = "except_Exception"
            /\ UNCHANGED ws_log
    /\ UNCHANGED <<family, session, inbox, served, selected_model, environ, subprocess, ws_connected, tasks_with_status, workflow_stopped_prematurely,
                   idx, attempt, executed_step_count, last_successful_result,
                   current_task_dict, step_result, final_task_executed_this_step,
                   tool_calls, correction_requests, planner_calls, simple_prompt_model, plan_json, corrected_json_str, last_call,
                   task_list_update, updates_sent>>

\* agent.py:421-426
Finalize ==
    /\ pc = "finalize"
    /\ final_agent_message' =
          IF ~workflow_stopped_prematurely THEN MSG_COMPLETED ELSE final_agent_message
    /\ IF ws_connected
       THEN /\ ws_log' = Append(ws_log, final_agent_message')
            /\ pc' = "returned"
       ELSE /\ pc' = "except_Exception"
            /\ UNCHANGED ws_log
    /\ UNCHANGED <<family, session, inbox, served, selected_model, environ, subprocess, ws_connected, tasks_with_status, workflow_stopped_prematurely,
                   idx, attempt, executed_step_count, last_successful_result,
                   current_task_dict, step_result, final_task_executed_this_step,
                   tool_calls, correction_requests, planner_calls, simple_prompt_model, plan_json, corrected_json_str, last_call,
                   task_list_update, updates_sent>>

\* agent.py:439-445: except ValueError
HandleValueError ==
    /\ pc = "except_ValueError"
    /\ IF ws_connected
       THEN /\ ws_log' = Append(ws_log, LINE_PLAN_ERROR)
            /\ task_list_update' = send_task_update(<<>>)
            /\ updates_sent' = CountUpdate
            /\ final_agent_message' = MSG_PLANNING
            /\ pc' = "returned"
       ELSE \* the send of 443 raises inside the handler: the exception leaves the function
            /\ pc' = "raised"
            /\ UNCHANGED <<ws_log, task_list_update, updates_sent, final_agent_message>>
    /\ UNCHANGED <<family, session, inbox, served, selected_model, environ, subprocess, ws_connected, tasks_with_status, workflow_stopped_prematurely,
                   idx, attempt, executed_step_count, last_successful_result,
                   current_task_dict, step_result, final_task_executed_this_step,
                   tool_calls, correction_requests, planner_calls, simple_prompt_model, plan_json, corrected_json_str, last_call>>

\* mutant: the handler leaves the statuses as they are
MarkUnfinished_none(tasks) == tasks

\* mutant: the handler marks every task, finished ones too
MarkUnfinished_all(tasks) ==
    [i \in 1..Len(tasks) |-> [tasks[i] EXCEPT !.status = "error"]]

\* agent.py:453-455: running and pending tasks become error
MarkUnfinished(tasks) ==
    [i \in 1..Len(tasks) |->
        IF tasks[i].status \in {"running", "pending"}
        THEN [tasks[i] EXCEPT !.status = "error"]
        ELSE tasks[i]]

\* agent.py:446-457: except Exception
HandleException ==
    /\ pc = "except_Exception"
    /\ IF ws_connected
       THEN LET tasks == MarkUnfinished(tasks_with_status)
            IN  /\ ws_log' = Append(ws_log, LINE_FAULT)
                /\ tasks_with_status' = tasks
                /\ task_list_update' = IF tasks # tasks_with_status
                                       THEN send_task_update(tasks) ELSE task_list_update
                /\ updates_sent' = IF tasks # tasks_with_status
                                   THEN CountUpdate ELSE updates_sent
                /\ final_agent_message' = MSG_UNEXPECTED
                /\ pc' = "returned"
       ELSE \* the send of 450 raises inside the handler: the exception leaves the function
            /\ pc' = "raised"
            /\ UNCHANGED <<ws_log, tasks_with_status, task_list_update, updates_sent, final_agent_message>>
    /\ UNCHANGED <<family, session, inbox, served, selected_model, environ, subprocess, ws_connected, workflow_stopped_prematurely, idx, attempt,
                   executed_step_count, last_successful_result, current_task_dict,
                   step_result, final_task_executed_this_step, tool_calls,
                   correction_requests, planner_calls, simple_prompt_model, plan_json, corrected_json_str, last_call>>

(* ======================================================================= *)
(* Environment                                                             *)
(* ======================================================================= *)
Terminated == pc \in {"returned", "raised"}

\* the client goes away; from then on every send on the channel raises
ClientDisconnect ==
    /\ ws_connected
    /\ ~Terminated
    /\ ws_connected' = FALSE
    /\ UNCHANGED <<family, session, inbox, served, selected_model, environ, subprocess, pc, tasks_with_status, final_agent_message,
                   workflow_stopped_prematurely, idx, attempt, executed_step_count,
                   last_successful_result, current_task_dict, step_result,
                   final_task_executed_this_step, tool_calls, correction_requests,
                   planner_calls, simple_prompt_model, plan_json, corrected_json_str, last_call, task_list_update, updates_sent, ws_log>>

\* main.py:45-79 in another connection's handler: a request of another session is
\* received and line 69 writes that session's browser model into the environment of
\* the process. The handlers share one event loop, so this runs only while this
\* session's workflow is suspended at an await; simple_prompt (agent.py:247, 174) is
\* called without await and keeps the loop until it returns.
Suspended == pc \notin {"planning", "reviewing", "returned", "raised"}

OtherSessionRequest ==
    /\ Suspended
    /\ environ' \in {current_browser_model, OTHER_BROWSER_MODEL}
    /\ environ' # environ
    /\ UNCHANGED <<family, session, inbox, served, selected_model, subprocess, updates_sent, pc, ws_connected, tasks_with_status,
                   final_agent_message, workflow_stopped_prematurely, idx, attempt,
                   executed_step_count, last_successful_result, current_task_dict, step_result,
                   final_task_executed_this_step, tool_calls, correction_requests,
                   planner_calls, simple_prompt_model, plan_json, corrected_json_str, last_call, task_list_update,
                   ws_log>>

\* an exception of another origin, raised in the try block of agent.py:224 outside
\* the inner try of 316: the case the handler of 446 is written for
UnexpectedFault ==
    /\ pc \in {"planning", "loop", "attempt", "after_loop", "finalize"}
    /\ pc' = "except_Exception"
    /\ UNCHANGED <<family, session, inbox, served, selected_model, environ, subprocess, ws_connected, tasks_with_status, final_agent_message,
                   workflow_stopped_prematurely, idx, attempt, executed_step_count,
                   last_successful_result, current_task_dict, step_result,
                   final_task_executed_this_step, tool_calls, correction_requests,
                   planner_calls, simple_prompt_model, plan_json, corrected_json_str, last_call, task_list_update, updates_sent, ws_log>>

Next ==
    \/ StartPlanning
    \/ PlannerReturns
    \/ BeginStep
    \/ Dispatch
    \/ ToolReturns
    \/ ToolRaises
    \/ CorrectionReturns
    \/ FinishStep
    \/ Finalize
    \/ HandleValueError
    \/ HandleException
    \/ ClientDisconnect

    \/ SubprocessTimeout
    \/ SubprocessReaped

Spec == Init /\ [][Next]_vars

\* the same workflow where, in addition, an unexpected exception may strike
NextFault == Next \/ UnexpectedFault

SpecFault == Init /\ [][NextFault]_vars

\* the same workflow beside the requests of another session of the same process
NextSessions == Next \/ OtherSessionRequest

SpecSessions == Init /\ [][NextSessions]_vars

\* the steps of the workflow and of its collaborators; the client's leaving is the
\* one step of Next that nothing obliges to happen
WorkflowStep ==
    \/ StartPlanning
    \/ PlannerReturns
    \/ BeginStep
    \/ Dispatch
    \/ ToolReturns
    \/ ToolRaises
    \/ CorrectionReturns
    \/ FinishStep
    \/ Finalize
    \/ HandleValueError
    \/ HandleException
    \/ SubprocessTimeout
    \/ SubprocessReaped

\* the workflow under the proviso that the coroutine is scheduled and that every
\* planner call and every tool invocation eventually returns or raises
SpecLive == Init /\ [][Next]_vars /\ WF_vars(WorkflowStep)

(* ======================================================================= *)
(* websocket_endpoint: the receive loop of one session                     *)
(* ======================================================================= *)
\* messages the client sends in one session
MaxMessages == 3

\* what a message is to main.py:46-64: text that json.loads rejects, an object
\* whose query is absent or empty, an object with a query
MessageKinds == {"invalid_json", "empty_query", "query"}

\* the locals of handle_agent_workflow and what the model records about one call,
\* as a call finds them
FreshLocals ==
    /\ tasks_with_status' = <<>>
    /\ final_agent_message' = MSG_DEFAULT
    /\ workflow_stopped_prematurely' = FALSE
    /\ idx' = 0
    /\ attempt' = 0
    /\ executed_step_count' = 0
    /\ last_successful_result' = NoneStr
    /\ current_task_dict' = NoneDict
    /\ step_result' = NoneStr
    /\ final_task_executed_this_step' = NoneDict
    /\ tool_calls' = <<>>
    /\ correction_requests' = <<>>
    /\ planner_calls' = 0
    /\ plan_json' = NoReply
    /\ corrected_json_str' = NoReply
    /\ last_call' = NoCall
    /\ task_list_update' = NoUpdate
    /\ ws_log' = <<>>
    /\ subprocess' = "none"
    /\ updates_sent' = 0
    /\ simple_prompt_model' = NoneStr

SameLocals ==
    UNCHANGED <<tasks_with_status, final_agent_message, workflow_stopped_prematurely, idx,
                attempt, executed_step_count, last_successful_result, current_task_dict,
                step_result, final_task_executed_this_step, tool_calls, correction_requests,
                planner_calls, plan_json, corrected_json_str, last_call, task_list_update,
                ws_log, subprocess, updates_sent, simple_prompt_model>>

\* main.py:33-40: the connection is accepted, no message has been read
InitEndpoint ==
    /\ family = "session"
    /\ session = "receiving"
    /\ inbox = <<>>
    /\ served = <<>>
    /\ pc = "idle"
    /\ ws_connected = TRUE
    /\ environ = current_browser_model
    /\ selected_model = PLANNING_TOOLING_MODEL
    /\ tasks_with_status = <<>>
    /\ final_agent_message = MSG_DEFAULT
    /\ workflow_stopped_prematurely = FALSE
    /\ idx = 0
    /\ attempt = 0
    /\ executed_step_count = 0
    /\ last_successful_result = NoneStr
    /\ current_task_dict = NoneDict
    /\ step_result = NoneStr
    /\ final_task_executed_this_step = NoneDict
    /\ tool_calls = <<>>
    /\ correction_requests = <<>>
    /\ planner_calls = 0
    /\ plan_json = NoReply
    /\ corrected_json_str = NoReply
    /\ last_call = NoCall
    /\ task_list_update = NoUpdate
    /\ ws_log = <<>>
    /\ subprocess = "none"
    /\ updates_sent = 0
    /\ simple_prompt_model = NoneStr

\* the client sends a message; it waits in the connection until receive_text returns it
MessageArrives ==
    /\ session # "closed"
    /\ ws_connected
    /\ Len(served) + Len(inbox) < MaxMessages
    /\ \E kind \in MessageKinds :
          inbox' = Append(inbox, [id |-> Len(served) + Len(inbox) + 1, kind |-> kind])
    /\ SameLocals
    /\ UNCHANGED <<family, session, served, selected_model, environ, pc, ws_connected>>

\* mutant: the loop reads on while the workflow it started is running
AtReceive_concurrent == session # "closed"

\* main.py:45: the loop is at receive_text only when no workflow call is awaited (75)
AtReceive == session = "receiving"

\* main.py:45-79: receive_text returns the oldest waiting message; invalid JSON and
\* an empty query are answered with an error line and the loop goes on, a query
\* sets the environment and enters handle_agent_workflow
ReceiveText ==
    /\ AtReceive
    /\ inbox # <<>>
    /\ LET raw_data == Head(inbox)
       IN  /\ inbox' = Tail(inbox)
           /\ served' = Append(served, raw_data)
           /\ IF raw_data.kind = "query"
              THEN /\ environ' = current_browser_model
                   /\ selected_model' = PLANNING_TOOLING_MODEL
                   /\ session' = "workflow"
                   /\ pc' = "start"
                   /\ FreshLocals
              ELSE \* the error line of 50 or 63; on a dropped connection the send raises
                   /\ session' = IF ws_connected THEN session ELSE "closed"
                   /\ SameLocals
                   /\ UNCHANGED <<environ, selected_model, pc>>
    /\ UNCHANGED <<family, ws_connected>>

\* main.py:45, 82-101: receive_text raises WebSocketDisconnect once the client has
\* gone and nothing is waiting; the session is closed
ReceiveDisconnect ==
    /\ session = "receiving"
    /\ inbox = <<>>
    /\ ~ws_connected
    /\ session' = "closed"
    /\ SameLocals
    /\ UNCHANGED <<family, inbox, served, selected_model, environ, pc, ws_connected>>

\* main.py:75-79: handle_agent_workflow has returned; the loop is back at receive_text
WorkflowReturns ==
    /\ session = "workflow"
    /\ pc = "returned"
    /\ session' = "receiving"
    /\ pc' = "idle"
    /\ FreshLocals
    /\ UNCHANGED <<family, inbox, served, selected_model, environ, ws_connected>>

\* main.py:82-101: an exception left handle_agent_workflow; the loop is left and the
\* connection closed
WorkflowRaises ==
    /\ session = "workflow"
    /\ pc = "raised"
    /\ session' = "closed"
    /\ SameLocals
    /\ UNCHANGED <<family, inbox, served, selected_model, environ, pc, ws_connected>>

NextEndpoint ==
    \/ Next
    \/ MessageArrives
    \/ ReceiveText
    \/ ReceiveDisconnect
    \/ WorkflowReturns
    \/ WorkflowRaises

SpecEndpoint == InitEndpoint /\ [][NextEndpoint]_vars

(* ======================================================================= *)
(* Properties                                                              *)
(* ======================================================================= *)
Steps == DOMAIN tasks_with_status
StatusOf(i) == tasks_with_status[i].status
Finished(i) == StatusOf(i) \in {"done", "error"}
NumFinished == Cardinality({i \in Steps : Finished(i)})
NumStarted  == Cardinality({i \in Steps : StatusOf(i) # "pending"})

(* ----------------------------------------------------------------------- *)
(* C1: the step budget is a hard ceiling on executed steps.  At most       *)
(* MAX_WORKFLOW_STEPS tasks ever leave pending; the counter equals the     *)
(* number of finished steps whatever their outcome (done or error); a      *)
(* pending task has had no tool invocation; and once the counter has       *)
(* reached the budget every pending task stays pending with no invocation. *)
(* ----------------------------------------------------------------------- *)
C1_BudgetInv ==
    /\ NumStarted <= MAX_WORKFLOW_STEPS
    /\ executed_step_count = NumFinished
    /\ \A i \in Steps : StatusOf(i) = "pending" => tool_calls[i] = 0

C1_BudgetStep ==
    executed_step_count >= MAX_WORKFLOW_STEPS =>
        \A i \in Steps :
            StatusOf(i) = "pending" =>
                /\ tasks_with_status'[i].status = "pending"
                /\ tool_calls'[i] = 0

C1_StepBudget == []C1_BudgetInv /\ [][C1_BudgetStep]_vars

\* the budget was exhausted with tasks left over, after steps that ended both ways
C1_Witness ==
    /\ pc = "returned"
    /\ final_agent_message = MSG_LIMIT
    /\ executed_step_count = MAX_WORKFLOW_STEPS
    /\ Len(tasks_with_status) > MAX_WORKFLOW_STEPS
    /\ \A i \in Steps : i > MAX_WORKFLOW_STEPS => StatusOf(i) = "pending" /\ tool_calls[i] = 0

(* ----------------------------------------------------------------------- *)
(* C2: no task ever gets more than MAX_RETRIES + 1 tool invocations.       *)
(* ----------------------------------------------------------------------- *)
C2_AttemptBound == \A i \in DOMAIN tool_calls : tool_calls[i] <= MAX_RETRIES + 1

\* a step that used every attempt: two corrections adopted, three invocations
C2_Witness ==
    \E i \in Steps :
        /\ Finished(i)
        /\ tool_calls[i] = MAX_RETRIES + 1
        /\ correction_requests[i] = MAX_RETRIES

(* ----------------------------------------------------------------------- *)
(* C3: once a task has status error the workflow has halted: the loop is   *)
(* left for good, no tool invocation and no planner call follows, the      *)
(* tasks after the failed one are and stay pending, and the run that       *)
(* reaches finalization ends in the Failed state.                          *)
(* ----------------------------------------------------------------------- *)
SomeError == \E i \in Steps : StatusOf(i) = "error"

C3_HaltInv ==
    \A i \in Steps :
        StatusOf(i) = "error" =>
            /\ pc \in {"finalize", "returned", "except_Exception", "raised"}
            /\ \A j \in Steps : j > i => StatusOf(j) = "pending" /\ tool_calls[j] = 0
            /\ pc \in {"finalize", "returned"} =>
                   final_agent_message = MSG_FAILED /\ workflow_stopped_prematurely

C3_HaltStep ==
    SomeError =>
        /\ tool_calls' = tool_calls
        /\ planner_calls' = planner_calls
        /\ correction_requests' = correction_requests
        /\ \A j \in Steps : StatusOf(j) = "pending" => tasks_with_status'[j].status = "pending"

C3_HaltOnError == []C3_HaltInv /\ [][C3_HaltStep]_vars

\* a failed first step, the later task untouched, the run ended as Failed
C3_Witness ==
    /\ pc = "returned"
    /\ Len(tasks_with_status) >= 2
    /\ StatusOf(1) = "error"
    /\ StatusOf(2) = "pending"
    /\ final_agent_message = MSG_FAILED
    /\ ws_log # <<>> /\ ws_log[Len(ws_log)] = MSG_FAILED

(* ----------------------------------------------------------------------- *)
(* C4: steps run one after the other in plan order: a task is started (it  *)
(* left pending, or a tool was invoked for it) only when the task before   *)
(* it is done or error, and at most one task is running.                   *)
(* ----------------------------------------------------------------------- *)
C4_Sequential ==
    /\ \A i \in Steps :
          (i > 1 /\ (StatusOf(i) # "pending" \/ tool_calls[i] > 0)) => Finished(i - 1)
    /\ Cardinality({i \in Steps : StatusOf(i) = "running"}) <= 1

\* the second step has its tool in flight
C4_Witness ==
    /\ Len(tasks_with_status) >= 2
    /\ pc = "tool_running"
    /\ idx = 2
    /\ StatusOf(2) = "running"
    /\ tool_calls[2] > 0

(* ----------------------------------------------------------------------- *)
(* C5: a status only moves forward: a done or error task keeps its status, *)
(* a running task never goes back to pending, and no status moves to an    *)
(* earlier stage of pending -> running -> {done, error}.  Checked with the *)
(* handler of unexpected faults taking its transitions too.                *)
(* ----------------------------------------------------------------------- *)
Stage(status) ==
    CASE status = "pending" -> 0
      [] status = "running" -> 1
      [] status \in {"done", "error"} -> 2

C5_StatusStep ==
    \A i \in Steps :
        /\ i \in DOMAIN tasks_with_status'
        /\ Finished(i) => tasks_with_status'[i].status = StatusOf(i)
        /\ StatusOf(i) = "running" => tasks_with_status'[i].status # "pending"
        /\ Stage(tasks_with_status'[i].status) >= Stage(StatusOf(i))

C5_StatusMonotonic == [][C5_StatusStep]_vars

\* the fault handler has run over a done, a running and a pending task
C5_Witness ==
    /\ pc = "returned"
    /\ final_agent_message = MSG_UNEXPECTED
    /\ Len(tasks_with_status) >= 3
    /\ StatusOf(1) = "done"
    /\ StatusOf(2) = "error" /\ tool_calls[2] > 0
    /\ StatusOf(3) = "error" /\ tool_calls[3] = 0

(* ----------------------------------------------------------------------- *)
(* C6 as stated: whenever a run over a plan of MAX_WORKFLOW_STEPS + 2      *)
(* tasks has ended, exactly MAX_WORKFLOW_STEPS tasks are done or error,    *)
(* the other two are pending and the terminal state is StepLimitReached.   *)
(* ----------------------------------------------------------------------- *)
C6_AsStated ==
    (pc = "returned" /\ Len(tasks_with_status) = MAX_WORKFLOW_STEPS + 2) =>
        /\ NumFinished = MAX_WORKFLOW_STEPS
        /\ \A i \in Steps : i > MAX_WORKFLOW_STEPS => StatusOf(i) = "pending"
        /\ final_agent_message = MSG_LIMIT

(* ----------------------------------------------------------------------- *)
(* C6: a run over a plan of MAX_WORKFLOW_STEPS + 2 tasks that reaches its  *)
(* end with no task in error has exactly the first MAX_WORKFLOW_STEPS      *)
(* tasks done, the last two pending, and ends in StepLimitReached, which   *)
(* is the final status line sent.                                          *)
(* ----------------------------------------------------------------------- *)
C6_LimitReached ==
    (pc = "returned" /\ Len(tasks_with_status) = MAX_WORKFLOW_STEPS + 2 /\ ~SomeError) =>
        /\ NumFinished = MAX_WORKFLOW_STEPS
        /\ \A i \in Steps : i <= MAX_WORKFLOW_STEPS => StatusOf(i) = "done"
        /\ \A i \in Steps : i > MAX_WORKFLOW_STEPS => StatusOf(i) = "pending"
        /\ final_agent_message = MSG_LIMIT
        /\ ws_log = <<MSG_LIMIT>>

\* twelve tasks, ten done, two left pending, the limit reported
C6_Witness ==
    /\ pc = "returned"
    /\ Len(tasks_with_status) = MAX_WORKFLOW_STEPS + 2
    /\ NumFinished = MAX_WORKFLOW_STEPS
    /\ StatusOf(MAX_WORKFLOW_STEPS + 1) = "pending"
    /\ StatusOf(MAX_WORKFLOW_STEPS + 2) = "pending"
    /\ final_agent_message = MSG_LIMIT

(* ----------------------------------------------------------------------- *)
(* C7: a step whose third tool invocation (after two failures, each with   *)
(* an adopted correction) returns a result without error indicator: the    *)
(* loop is left with that result and that task variant, the step never     *)
(* becomes error, and once finished it is done with final_executed_task    *)
(* the variant handed to the third invocation; three invocations in all.   *)
(* ----------------------------------------------------------------------- *)
ThirdAttemptSucceeded(i) ==
    /\ tool_calls[i] = MAX_RETRIES + 1
    /\ correction_requests[i] = MAX_RETRIES
    /\ last_call.step = i
    /\ last_call.result \notin {InFlight, Raised}
    /\ ~HasErrorIndicator(last_call.result)

C7_ThirdAttempt ==
    \A i \in Steps :
        ThirdAttemptSucceeded(i) =>
            /\ StatusOf(i) \in {"running", "done"}
            /\ (pc = "after_loop" /\ idx = i) =>
                  /\ step_result = last_call.result
                  /\ final_task_executed_this_step = last_call.task
            /\ pc \in {"loop", "finalize", "returned"} => StatusOf(i) = "done"
            /\ StatusOf(i) = "done" =>
                  /\ tasks_with_status[i].final_executed_task = last_call.task
                  /\ tasks_with_status[i].result = last_call.result
                  /\ tasks_with_status[i].final_executed_task
                        # tasks_with_status[i].original_task

\* the first step is done on its third attempt, with the second correction recorded
C7_Witness ==
    /\ Len(tasks_with_status) >= 1
    /\ ThirdAttemptSucceeded(1)
    /\ StatusOf(1) = "done"
    /\ tasks_with_status[1].original_task = T_shell
    /\ tasks_with_status[1].final_executed_task = K_fix
    /\ tasks_with_status[1].result = "hello"

(* ----------------------------------------------------------------------- *)
(* C8: when the planner's reply is empty or is no valid plan, nothing is   *)
(* executed: the task list stays empty, no tool is invoked, the run is in  *)
(* or past the planning-error handler; the handler reports the error and   *)
(* then sends the empty task list, which is the last update; the only run  *)
(* that ends without the report is one whose client is gone.               *)
(* ----------------------------------------------------------------------- *)
InvalidPlanReply(reply) ==
    \/ reply.body \in {"empty", "blank", "garbage", "scalar"}
    \/ reply.body = "object" /\ ~Has(reply.items[1], "tool")
    \/ reply.body = "list" /\ \E k \in 1..Len(reply.items) :
                                  ~IsDict(reply.items[k]) \/ ~Has(reply.items[k], "tool")

C8_PlanningAbort ==
    (plan_json # NoReply /\ InvalidPlanReply(plan_json)) =>
        /\ tasks_with_status = <<>>
        /\ tool_calls = <<>>
        /\ last_call = NoCall
        /\ planner_calls = 1
        /\ pc \in {"except_ValueError", "returned", "raised"}
        /\ pc = "returned" =>
              /\ final_agent_message = MSG_PLANNING
              /\ ws_log = <<LINE_PLAN_ERROR>>
              /\ task_list_update = <<>>
        /\ pc = "raised" => ~ws_connected

\* a plan with an entry that has no tool: reported, the task list cleared
C8_Witness ==
    /\ pc = "returned"
    /\ plan_json = Reply("list", <<T_shell, I_notool>>)
    /\ ws_log = <<LINE_PLAN_ERROR>>
    /\ task_list_update = <<>>

(* ----------------------------------------------------------------------- *)
(* C9: a work copy of a task, original or adopted correction, that names   *)
(* a tool outside the registered set is never handed to a tool: the        *)
(* attempt invokes nothing and asks the planner nothing, the retry loop    *)
(* is left at once, and the step is finished with status error.            *)
(* ----------------------------------------------------------------------- *)
UnknownTool(task) == Get(task, "tool", NoneStr) \notin RegisteredTools

C9_UnknownInv ==
    /\ last_call # NoCall => ~UnknownTool(last_call.task)
    /\ (pc = "after_loop" /\ UnknownTool(current_task_dict)) =>
          /\ final_task_executed_this_step = current_task_dict
          /\ FinalStatus(step_result) = "error"
    /\ \A i \in Steps :
          (Finished(i) /\ UnknownTool(tasks_with_status[i].final_executed_task)) =>
              StatusOf(i) = "error"

C9_UnknownStep ==
    (pc = "attempt" /\ UnknownTool(current_task_dict)) =>
        /\ tool_calls' = tool_calls
        /\ planner_calls' = planner_calls
        /\ correction_requests' = correction_requests
        /\ last_call' = last_call
        /\ pc' \in {"attempt", "after_loop", "except_Exception"}
        /\ pc' = "after_loop" => current_task_dict' = current_task_dict

C9_UnknownTool == []C9_UnknownInv /\ [][C9_UnknownStep]_vars

\* an adopted correction that names an unknown tool ended the first step in error
C9_Witness ==
    /\ Len(tasks_with_status) >= 1
    /\ StatusOf(1) = "error"
    /\ tasks_with_status[1].original_task = T_shell
    /\ tasks_with_status[1].final_executed_task = K_unknown
    /\ tool_calls[1] = 1
    /\ correction_requests[1] = 1

(* ----------------------------------------------------------------------- *)
(* C10: once a tool invocation has raised, the step gets no correction     *)
(* request and no further invocation, whatever the attempt number: the     *)
(* retry loop is left at once with the captured failure as the step's      *)
(* result, and the step is finished with status error.                     *)
(* ----------------------------------------------------------------------- *)
C10_RaisedInv ==
    last_call.result = Raised =>
        /\ pc \in {"after_loop", "finalize", "returned", "except_Exception", "raised"}
        /\ pc = "after_loop" =>
              /\ idx = last_call.step
              /\ step_result = UnhandledResult("tool")
              /\ FinalStatus(step_result) = "error"
        /\ Finished(last_call.step) =>
              /\ StatusOf(last_call.step) = "error"
              /\ tasks_with_status[last_call.step].result = UnhandledResult("tool")
        /\ pc \in {"finalize", "returned"} => Finished(last_call.step)

C10_RaisedStep ==
    /\ last_call.result = Raised =>
          /\ tool_calls' = tool_calls
          /\ planner_calls' = planner_calls
          /\ correction_requests' = correction_requests
          /\ last_call' = last_call
    /\ (pc = "tool_running" /\ last_call'.result = Raised) =>
          /\ planner_calls' = planner_calls
          /\ correction_requests' = correction_requests
          /\ pc' \in {"after_loop", "except_Exception"}

C10_ToolException == []C10_RaisedInv /\ [][C10_RaisedStep]_vars

\* the first invocation of a step raised: one call, no correction asked, error
C10_Witness ==
    /\ last_call.result = Raised
    /\ Finished(last_call.step)
    /\ StatusOf(last_call.step) = "error"
    /\ attempt = 0
    /\ attempt < MAX_RETRIES
    /\ tool_calls[last_call.step] = 1
    /\ correction_requests[last_call.step] = 0

(* ----------------------------------------------------------------------- *)
(* C11: the planner is asked for a correction only after an invocation     *)
(* whose result is classified as a failure at an attempt below             *)
(* MAX_RETRIES; a failing result at attempt MAX_RETRIES leaves the retry   *)
(* loop with no planner call; a step gets at most MAX_RETRIES correction   *)
(* requests, each after an invocation of its own.                          *)
(* ----------------------------------------------------------------------- *)
C11_CorrectionInv ==
    /\ \A i \in Steps :
          /\ correction_requests[i] <= MAX_RETRIES
          /\ correction_requests[i] <= tool_calls[i]
    /\ pc = "reviewing" =>
          /\ attempt < MAX_RETRIES
          /\ HasErrorIndicator(last_call.result)
          /\ last_call.step = idx
          /\ correction_requests[idx] = attempt + 1

C11_CorrectionStep ==
    /\ (pc # "planning" /\ planner_calls' # planner_calls) =>
          /\ pc = "tool_running"
          /\ attempt < MAX_RETRIES
          /\ last_call'.result \notin {InFlight, Raised}
          /\ HasErrorIndicator(last_call'.result)
          /\ planner_calls' = planner_calls + 1
          /\ correction_requests' = [correction_requests EXCEPT ![idx] = @ + 1]
    /\ correction_requests' # correction_requests =>
          (pc = "planning" \/ planner_calls' = planner_calls + 1)
    /\ (pc = "tool_running" /\ attempt = MAX_RETRIES) =>
          /\ planner_calls' = planner_calls
          /\ pc' \in {"tool_running", "after_loop", "except_Exception"}

C11_CorrectionBudget == []C11_CorrectionInv /\ [][C11_CorrectionStep]_vars

\* three failing invocations of one step: two correction requests, none after the third
C11_Witness ==
    /\ Len(tasks_with_status) >= 1
    /\ StatusOf(1) = "error"
    /\ tool_calls[1] = MAX_RETRIES + 1
    /\ correction_requests[1] = MAX_RETRIES
    /\ attempt = MAX_RETRIES
    /\ last_call.result = "Error: boom"
    /\ planner_calls = 1 + MAX_RETRIES

(* ----------------------------------------------------------------------- *)
(* C12: when the planner answers a correction request with empty text,     *)
(* with text that is no JSON, or with an object that has no tool key, the  *)
(* work copy of the task stays as it was, the retry loop is left with the  *)
(* failing result, the planner is not asked again and no tool is invoked   *)
(* again for the step, and the step is finished with status error, with    *)
(* attempts left.                                                          *)
(* ----------------------------------------------------------------------- *)
UnusableCorrection(reply) ==
    \/ reply.body \in {"empty", "garbage"}
    \/ reply.body = "object" /\ ~Has(reply.items[1], "tool")

C12_NoCorrectionInv ==
    (corrected_json_str # NoReply /\ UnusableCorrection(corrected_json_str)) =>
        /\ pc \in {"after_loop", "finalize", "returned", "except_Exception", "raised"}
        /\ attempt < MAX_RETRIES
        /\ tool_calls[idx] = attempt + 1
        /\ correction_requests[idx] = attempt + 1
        /\ last_call.step = idx
        /\ pc \in {"after_loop", "finalize", "returned"} =>
              /\ step_result = last_call.result
              /\ FinalStatus(step_result) = "error"
        /\ pc \in {"finalize", "returned"} => StatusOf(idx) = "error"
        /\ StatusOf(idx) \in {"running", "error"}

C12_NoCorrectionStep ==
    /\ (pc = "reviewing" /\ pc' # "reviewing" /\ UnusableCorrection(corrected_json_str')) =>
          /\ current_task_dict' = current_task_dict
          /\ final_task_executed_this_step' = final_task_executed_this_step
          /\ attempt' = attempt
          /\ pc' \in {"after_loop", "except_Exception"}
    /\ (corrected_json_str # NoReply /\ UnusableCorrection(corrected_json_str)) =>
          /\ planner_calls' = planner_calls
          /\ tool_calls' = tool_calls
          /\ corrected_json_str' = corrected_json_str

C12_NoCorrection == []C12_NoCorrectionInv /\ [][C12_NoCorrectionStep]_vars

\* the first correction request is answered by an object without tool: the step fails
C12_Witness ==
    /\ corrected_json_str = Reply("object", <<I_notool>>)
    /\ StatusOf(idx) = "error"
    /\ attempt = 0
    /\ tool_calls[idx] = 1
    /\ correction_requests[idx] = 1

(* ----------------------------------------------------------------------- *)
(* C13 as stated: a step whose first invocation returns                    *)
(* "Exit Code: 0\nOutput:\nhello\n" gets no correction request and is      *)
(* never recorded as error: it is done once it is finished.                *)
(* ----------------------------------------------------------------------- *)
C13_ExitZeroIsSuccess ==
    \A i \in Steps :
        (/\ last_call.step = i
         /\ tool_calls[i] = 1
         /\ last_call.result = "Exit Code: 0\nOutput:\nhello\n") =>
            /\ correction_requests[i] = 0
            /\ pc # "reviewing"
            /\ StatusOf(i) \in {"running", "done"}

\* what the code does with that result: a correction is asked for and, none
\* being usable, the step is recorded as error with the result as its text
C13_Diverges ==
    /\ Len(tasks_with_status) >= 1
    /\ tool_calls[1] = 1
    /\ correction_requests[1] = 1
    /\ last_call.result = "Exit Code: 0\nOutput:\nhello\n"
    /\ StatusOf(1) = "error"
    /\ tasks_with_status[1].result = "Exit Code: 0\nOutput:\nhello\n"
    /\ final_agent_message = MSG_FAILED

(* ----------------------------------------------------------------------- *)
(* The reading of a raw result that the classification claims speak of:    *)
(* the exit code line, the section markers and the keyword set.            *)
(* ----------------------------------------------------------------------- *)
Digits == {"0", "1", "2", "3", "4", "5", "6", "7", "8", "9"}

EXIT_CODE_PREFIX == <<"e", "x", "i", "t", " ", "c", "o", "d", "e", ":", " ">>

SECTION_MARKERS ==
    { <<"o", "u", "t", "p", "u", "t", ":">>,
      <<"s", "t", "d", "o", "u", "t", " ", "l", "o", "g", ":">>,
      <<"e", "r", "r", "o", "r", ":">>,
      <<"e", "r", "r", "o", "r", "s", ":">>,
      <<"s", "t", "d", "e", "r", "r", " ", "l", "o", "g", ":">> }

STATED_KEYWORDS ==
    << <<"e", "r", "r", "o", "r", ":">>,
       <<"f", "a", "i", "l">>,
       <<"e", "x", "c", "e", "p", "t">>,
       <<"t", "r", "a", "c", "e">>,
       <<"t", "i", "m", "e", "o", "u", "t">>,
       <<"d", "e", "n", "i", "e", "d">>,
       <<"n", "o", "t", " ", "f", "o", "u", "n", "d">> >>

\* a result that was really returned by a tool
Returned(result) == result \notin {NoneStr, InFlight, Raised}

RECURSIVE SplitLines(_)
SplitLines(cs) ==
    IF \A k \in 1..Len(cs) : cs[k] # "\n"
    THEN <<cs>>
    ELSE LET k == CHOOSE n \in 1..Len(cs) :
                     cs[n] = "\n" /\ \A j \in 1..(n - 1) : cs[j] # "\n"
         IN  <<SubSeq(cs, 1, k - 1)>> \o SplitLines(SubSeq(cs, k + 1, Len(cs)))

\* the line is "Exit Code: <integer>"
IsExitCodeLine(line) ==
    /\ Len(line) > Len(EXIT_CODE_PREFIX)
    /\ SubSeq(Lower(line), 1, Len(EXIT_CODE_PREFIX)) = EXIT_CODE_PREFIX
    /\ \A k \in (Len(EXIT_CODE_PREFIX) + 1)..Len(line) : line[k] \in Digits

HasExitCode(result) ==
    LET lines == SplitLines(Chars(result))
    IN  \E n \in 1..Len(lines) : IsExitCodeLine(lines[n])

\* the first exit code line says zero
ExitCodeIsZero(result) ==
    LET lines == SplitLines(Chars(result))
        n == CHOOSE m \in 1..Len(lines) :
                 IsExitCodeLine(lines[m]) /\ \A j \in 1..(m - 1) : ~IsExitCodeLine(lines[j])
    IN  \A k \in (Len(EXIT_CODE_PREFIX) + 1)..Len(lines[n]) : lines[n][k] = "0"

\* nothing but the exit code line and section markers: both sections are empty
SectionsEmpty(result) ==
    LET lines == SplitLines(Chars(result))
    IN  \A n \in 1..Len(lines) :
            \/ lines[n] = <<>>
            \/ IsExitCodeLine(lines[n])
            \/ Lower(lines[n]) \in SECTION_MARKERS

HasStatedKeyword(result) ==
    LET low == Lower(Chars(result))
    IN  \E k \in 1..Len(STATED_KEYWORDS) : Contains(low, STATED_KEYWORDS[k])

\* step i is finished and its recorded result is what its last invocation returned
RecordedVerdict(i) ==
    /\ Finished(i)
    /\ last_call.step = i
    /\ Returned(last_call.result)
    /\ tasks_with_status[i].result = last_call.result

(* ----------------------------------------------------------------------- *)
(* C14 as stated: a returned result that contains one of the keywords      *)
(* error:, fail, except, trace, timeout, denied, not found (in any case)   *)
(* makes the step a failure, and a returned result with no exit code line  *)
(* and none of the keywords makes it a success.                            *)
(* ----------------------------------------------------------------------- *)
C14_StatedKeywords ==
    \A i \in Steps :
        RecordedVerdict(i) =>
            /\ HasStatedKeyword(last_call.result) => StatusOf(i) = "error"
            /\ (~HasExitCode(last_call.result) /\ ~HasStatedKeyword(last_call.result))
                  => StatusOf(i) = "done"

\* "access denied" contains the keyword denied and the step is recorded as done
C14_Diverges ==
    /\ Len(tasks_with_status) >= 1
    /\ RecordedVerdict(1)
    /\ last_call.result = "access denied"
    /\ HasStatedKeyword(last_call.result)
    /\ StatusOf(1) = "done"
    /\ correction_requests[1] = 0

(* ----------------------------------------------------------------------- *)
(* C15: a returned result with a non-zero exit code, or with exit code 0   *)
(* and both sections empty, is classified as a failure: at an attempt      *)
(* below MAX_RETRIES the planner is asked for a correction, at attempt     *)
(* MAX_RETRIES the retry loop is left, and a step finished with such a     *)
(* result is recorded as error.                                            *)
(* ----------------------------------------------------------------------- *)
FailsByExitCode(result) ==
    /\ Returned(result)
    /\ HasExitCode(result)
    /\ (~ExitCodeIsZero(result) \/ SectionsEmpty(result))

C15_ExitCodeInv ==
    /\ \A i \in Steps :
          (RecordedVerdict(i) /\ FailsByExitCode(last_call.result)) => StatusOf(i) = "error"
    /\ FailsByExitCode(last_call.result) =>
          /\ HasErrorIndicator(last_call.result)
          /\ pc = "after_loop" => FinalStatus(step_result) = "error"

C15_ExitCodeStep ==
    (pc = "tool_running" /\ FailsByExitCode(last_call'.result) /\ pc' # "except_Exception") =>
        /\ step_result' = last_call'.result
        /\ attempt < MAX_RETRIES =>
              /\ pc' = "reviewing"
              /\ planner_calls' = planner_calls + 1
              /\ correction_requests' = [correction_requests EXCEPT ![idx] = @ + 1]
        /\ attempt = MAX_RETRIES =>
              /\ pc' = "after_loop"
              /\ planner_calls' = planner_calls

C15_ExitCodeFailure == []C15_ExitCodeInv /\ [][C15_ExitCodeStep]_vars

\* exit code 0 with empty sections: the planner is asked for a correction
C15_Witness ==
    /\ pc = "reviewing"
    /\ attempt = 0
    /\ last_call.result = "Exit Code: 0\nOutput:\n"
    /\ FailsByExitCode(last_call.result)
    /\ ExitCodeIsZero(last_call.result)
    /\ SectionsEmpty(last_call.result)
    /\ correction_requests[idx] = 1

(* ----------------------------------------------------------------------- *)
(* C16: the three places that classify a result agree on every result a    *)
(* tool returned: the check of the retry loop, the check inside            *)
(* review_and_resolve and the final status decision; a correction is       *)
(* under review only for a result all three call a failure; the recorded   *)
(* status of a step is the verdict on its recorded result, and two steps   *)
(* with the same recorded result have the same status.                     *)
(* ----------------------------------------------------------------------- *)
C16_ClassifiersAgree ==
    /\ Returned(last_call.result) =>
          /\ HasErrorIndicator(last_call.result) = ReviewIsError(last_call.result)
          /\ HasErrorIndicator(last_call.result) = FinalStatusIsError(last_call.result)
    /\ pc = "reviewing" =>
          /\ step_result = last_call.result
          /\ HasErrorIndicator(step_result)
          /\ ReviewIsError(step_result)
          /\ FinalStatus(step_result) = "error"
    /\ \A i \in Steps :
          RecordedVerdict(i) =>
              (StatusOf(i) = "error" <=> HasErrorIndicator(last_call.result))
    /\ \A i, j \in Steps :
          (Finished(i) /\ Finished(j)
             /\ tasks_with_status[i].result = tasks_with_status[j].result)
          => StatusOf(i) = StatusOf(j)

\* two finished steps with the same result text and the same status
C16_Witness ==
    /\ Len(tasks_with_status) = 2
    /\ Finished(1) /\ Finished(2)
    /\ tasks_with_status[1].result = "access denied"
    /\ tasks_with_status[2].result = "access denied"
    /\ StatusOf(1) = "done" /\ StatusOf(2) = "done"

(* ----------------------------------------------------------------------- *)
(* Status transitions of one step of the workflow                          *)
(* ----------------------------------------------------------------------- *)
\* the tasks whose status differs before and after the step
Transitioned ==
    { i \in Steps : i <= Len(tasks_with_status')
                    /\ tasks_with_status'[i].status # tasks_with_status[i].status }

\* the latest update lists every task, in plan order, with its current status
UpdateIsCurrent(update, tasks) ==
    /\ Len(update) = Len(tasks)
    /\ \A i \in 1..Len(tasks) :
          /\ update[i].description = tasks[i].description
          /\ update[i].status = tasks[i].status
          /\ update[i].status \in {"pending", "running", "done", "error"}

(* ----------------------------------------------------------------------- *)
(* C17 as stated: with the client connected, every status transition is    *)
(* followed by a task list update before the next status transition: no    *)
(* step changes the status of two tasks, and a step that changes one       *)
(* ends with an update that shows the task list as it then is.             *)
(* ----------------------------------------------------------------------- *)
C17_UpdatePerTransitionStep ==
    (ws_connected /\ Transitioned # {}) =>
        /\ Cardinality(Transitioned) = 1
        /\ UpdateIsCurrent(task_list_update', tasks_with_status')

C17_UpdatePerTransition == [][C17_UpdatePerTransitionStep]_vars

(* ----------------------------------------------------------------------- *)
(* C17: with the client connected, every step that changes task statuses   *)
(* ends with a task list update that lists all tasks in plan order with    *)
(* their current status, and the latest update always shows the task list  *)
(* as it is; the steps of the loop change one status per update, the       *)
(* fault handler turns every pending or running task to error and then     *)
(* sends one update for all of them.                                       *)
(* ----------------------------------------------------------------------- *)
C17_UpdateInv ==
    (ws_connected /\ task_list_update # NoUpdate) =>
        UpdateIsCurrent(task_list_update, tasks_with_status)

C17_UpdateStep ==
    (ws_connected /\ Transitioned # {}) =>
        /\ UpdateIsCurrent(task_list_update', tasks_with_status')
        /\ pc # "except_Exception" => Cardinality(Transitioned) = 1
        /\ pc = "except_Exception" =>
              /\ Transitioned = { i \in Steps : StatusOf(i) \in {"pending", "running"} }
              /\ \A i \in Transitioned : tasks_with_status'[i].status = "error"

C17_UpdateAfterTransitions == []C17_UpdateInv /\ [][C17_UpdateStep]_vars

\* the fault handler has turned a running and a pending task to error; one update shows both
C17_Witness ==
    /\ ws_connected
    /\ pc = "returned"
    /\ final_agent_message = MSG_UNEXPECTED
    /\ Len(tasks_with_status) = 2
    /\ tool_calls = <<1, 0>>
    /\ StatusOf(1) = "error" /\ StatusOf(2) = "error"
    /\ Len(task_list_update) = 2
    /\ task_list_update[1].status = "error" /\ task_list_update[2].status = "error"

(* ----------------------------------------------------------------------- *)
(* C18: a run that has gone through finalization ended in exactly one of   *)
(* Completed, Failed, StepLimitReached; it is Completed exactly when the   *)
(* run was not stopped early, and then every task is done; it is Failed    *)
(* exactly when a task is in error, and StepLimitReached exactly when the  *)
(* budget was used up with tasks left pending.                             *)
(* ----------------------------------------------------------------------- *)
Finalized == pc = "returned" /\ tasks_with_status # <<>> /\ final_agent_message # MSG_UNEXPECTED

C18_TerminalInv ==
    Finalized =>
        /\ final_agent_message \in {MSG_COMPLETED, MSG_FAILED, MSG_LIMIT}
        /\ final_agent_message = MSG_COMPLETED <=> ~workflow_stopped_prematurely
        /\ final_agent_message = MSG_COMPLETED => \A i \in Steps : StatusOf(i) = "done"
        /\ final_agent_message = MSG_FAILED <=> SomeError
        /\ final_agent_message = MSG_LIMIT <=>
              /\ ~SomeError
              /\ executed_step_count = MAX_WORKFLOW_STEPS
              /\ \E i \in Steps : StatusOf(i) = "pending"

C18_TerminalStep ==
    (pc = "finalize" /\ pc' = "returned") =>
        /\ final_agent_message' \in {MSG_COMPLETED, MSG_FAILED, MSG_LIMIT}
        /\ final_agent_message' = MSG_COMPLETED <=> ~workflow_stopped_prematurely
        /\ tasks_with_status' = tasks_with_status

C18_OneTerminalState == []C18_TerminalInv /\ [][C18_TerminalStep]_vars

\* a plan of exactly MAX_WORKFLOW_STEPS tasks, all done: Completed, not StepLimitReached
C18_Witness ==
    /\ Finalized
    /\ Len(tasks_with_status) = MAX_WORKFLOW_STEPS
    /\ executed_step_count = MAX_WORKFLOW_STEPS
    /\ final_agent_message = MSG_COMPLETED
    /\ ~workflow_stopped_prematurely

(* ----------------------------------------------------------------------- *)
(* C19 as stated: a run that has gone through finalization has published   *)
(* exactly one final status line, whichever way it ended.                  *)
(* ----------------------------------------------------------------------- *)
C19_OneFinalLine ==
    Finalized =>
        /\ Len(ws_log) = 1
        /\ ws_log[1] = final_agent_message

\* a failed run: the failure line went out at the failed step and again at finalization
C19_Diverges ==
    /\ Finalized
    /\ final_agent_message = MSG_FAILED
    /\ ws_log = <<MSG_FAILED, MSG_FAILED>>

(* ----------------------------------------------------------------------- *)
(* C20: the context handed to the tool of a step is the recorded result    *)
(* of the step before it, which is done, or the initial sentinel for the   *)
(* first step; the context is set to the sentinel when execution starts    *)
(* and changes only when a step is finished as done, to that step's        *)
(* result; it never holds a result classified as a failure and does not    *)
(* change between the attempts of one step.                                *)
(* ----------------------------------------------------------------------- *)
ContextOf(i) == IF i = 1 THEN NO_CONTEXT ELSE tasks_with_status[i - 1].result

C20_ContextInv ==
    /\ (last_call # NoCall /\ last_call.task["tool"] = "browser") =>
          /\ last_call.context = ContextOf(last_call.step)
          /\ last_call.step > 1 => StatusOf(last_call.step - 1) = "done"
    /\ pc \in {"attempt", "tool_running", "reviewing", "after_loop"} =>
          last_successful_result = ContextOf(idx)
    /\ last_successful_result \notin {NoneStr, NO_CONTEXT} =>
          /\ FinalStatus(last_successful_result) = "done"
          /\ \E i \in Steps : StatusOf(i) = "done"
                              /\ tasks_with_status[i].result = last_successful_result

C20_ContextStep ==
    /\ last_successful_result' # last_successful_result =>
          \/ pc = "planning" /\ last_successful_result' = NO_CONTEXT
          \/ /\ pc = "after_loop"
             /\ tasks_with_status'[idx].status = "done"
             /\ last_successful_result' = tasks_with_status'[idx].result
    /\ (pc = "after_loop" /\ pc' = "loop") =>
          /\ tasks_with_status'[idx].status = "done"
          /\ last_successful_result' = step_result
    /\ (pc = "after_loop" /\ tasks_with_status'[idx].status = "error") =>
          last_successful_result' = last_successful_result

C21_SessionModel ==
    (last_call # NoCall /\ last_call.task["tool"] = "browser") =>
        last_call.browser_model = current_browser_model

\* C21, the divergence: another session's request arrived while this workflow was
\* under way, and a browser step of this session ran with that session's model
C21_Diverges ==
    /\ last_call # NoCall
    /\ last_call.task["tool"] = "browser"
    /\ last_call.step >= 1
    /\ tool_calls[last_call.step] >= 1
    /\ last_call.browser_model = OTHER_BROWSER_MODEL
    /\ current_browser_model # OTHER_BROWSER_MODEL

(* ----------------------------------------------------------------------- *)
(* C22                                                                     *)
(* ----------------------------------------------------------------------- *)
\* this session's workflow is waiting for a planner reply or for a tool to return
AwaitingPlanner == pc \in {"planning", "reviewing"}
AwaitingTool    == pc = "tool_running"

\* C22 as stated: every planner call and every tool invocation is a suspension point;
\* while this session waits for its planner or tool, another session can take a step.
C22_SuspensionPoints ==
    (AwaitingPlanner \/ AwaitingTool) => ENABLED OtherSessionRequest

\* C22, the divergence: the workflow is inside a planner call and no other session can
\* take a step until it returns; inside a tool invocation another session can
C22_Diverges ==
    /\ AwaitingPlanner
    /\ ws_connected
    /\ ~ENABLED OtherSessionRequest

(* ----------------------------------------------------------------------- *)
(* C23                                                                     *)
(* ----------------------------------------------------------------------- *)
\* the client went away while a tool invocation of this session was in flight
\* (Dispatch needs a live channel, so the disconnect came after the invocation began)
DisconnectedInFlight == pc = "tool_running" /\ ~ws_connected

\* C23 as stated: when the client disconnects while a tool invocation is in flight,
\* the invocation is cancelled (it runs on neither to its normal completion nor to
\* its timeout), and after the disconnect no correction is requested and no further
\* tool invocation is started.
NothingStarted ==
    \A i \in DOMAIN tool_calls :
        /\ tool_calls'[i] = tool_calls[i]
        /\ correction_requests'[i] = correction_requests[i]

C23_CancelledStep ==
    /\ DisconnectedInFlight =>
          /\ ~Returned(last_call'.result)
          /\ subprocess' = subprocess \/ subprocess' = "none"
    /\ ~ws_connected => NothingStarted

C23_CancelledOnDisconnect == [][C23_CancelledStep]_vars

\* C23, the divergence: the browser invocation that was in flight when the client
\* went away ran to its normal completion and returned a result
C23_Diverges ==
    /\ ~ws_connected
    /\ last_call # NoCall
    /\ last_call.task["tool"] = "browser"
    /\ subprocess = "exited"
    /\ Returned(last_call.result)
    /\ step_result = UnhandledResult("channel")
    /\ correction_requests[last_call.step] = attempt

\* the part of C23 that the code keeps: after the disconnect no correction is
\* requested and no tool invocation is started
C23_NothingStartedStep ==
    ~ws_connected =>
        /\ NothingStarted
        /\ planner_calls' = planner_calls \/ pc = "planning"

C23_NothingStarted == [][C23_NothingStartedStep]_vars

(* ----------------------------------------------------------------------- *)
(* C24: when the browser subprocess exceeds its hard timeout, the process  *)
(* is killed and then waited for before the invocation returns; with the   *)
(* client connected the invocation returns the timeout text instead of     *)
(* raising; that text is classified as a failure at all three sites, a     *)
(* correction is requested for it when attempt < MAX_RETRIES, and without  *)
(* an adopted correction the step is recorded as error.                    *)
(* ----------------------------------------------------------------------- *)
TimedOut == last_call.result = TIMEOUT_RESULT

C24_TimeoutInv ==
    /\ subprocess \in {"killed", "reaped"} =>
          /\ last_call.task["tool"] = "browser"
          /\ last_call.step = idx
    /\ (pc = "tool_running" /\ subprocess \in {"killed", "reaped"}) =>
          last_call.result = InFlight
    /\ TimedOut =>
          /\ subprocess = "reaped"
          /\ HasErrorIndicator(last_call.result)
          /\ ReviewIsError(last_call.result)
          /\ FinalStatusIsError(last_call.result)
          /\ pc = "reviewing" => (attempt < MAX_RETRIES /\ step_result = TIMEOUT_RESULT)
          /\ (Finished(last_call.step) /\ tasks_with_status[last_call.step].result = TIMEOUT_RESULT)
                => StatusOf(last_call.step) = "error"

C24_TimeoutStep ==
    \* kill, then wait, and no return in between
    /\ subprocess' = "killed" => (subprocess = "running" \/ subprocess = "killed")
    /\ (subprocess' = "reaped" /\ subprocess # "reaped") => subprocess = "killed"
    /\ subprocess = "killed" => (pc' = "tool_running" /\ last_call' = last_call)
    /\ (last_call'.result = TIMEOUT_RESULT /\ ~TimedOut) => subprocess = "reaped"
    \* the invocation ends with the timeout text, and the review asks for a correction
    /\ (pc = "tool_running" /\ subprocess = "reaped" /\ ws_connected /\ pc' # pc) =>
          /\ last_call'.result = TIMEOUT_RESULT
          /\ step_result' = TIMEOUT_RESULT
          /\ IF attempt < MAX_RETRIES
             THEN /\ pc' = "reviewing"
                  /\ correction_requests' = [correction_requests EXCEPT ![idx] = @ + 1]
                  /\ planner_calls' = planner_calls + 1
             ELSE /\ pc' = "after_loop"
                  /\ UNCHANGED <<correction_requests, planner_calls>>

C24_BrowserTimeout == []C24_TimeoutInv /\ [][C24_TimeoutStep]_vars

\* the first invocation of a browser step timed out, the process was reaped, and the
\* planner has been asked for a correction
C24_Witness ==
    /\ TimedOut
    /\ subprocess = "reaped"
    /\ last_call.task["tool"] = "browser"
    /\ pc = "reviewing"
    /\ attempt = 0
    /\ correction_requests[idx] = 1
    /\ step_result = TIMEOUT_RESULT

(* ----------------------------------------------------------------------- *)
(* C25                                                                     *)
(* ----------------------------------------------------------------------- *)
\* main.py:43-45, 75-79: handle_agent_workflow has returned to the receive loop of
\* the session, which waits for the next request on a live connection
AcceptsNewRequest == pc = "returned" /\ ws_connected

\* main.py:82-101: an exception came out of handle_agent_workflow; the receive loop
\* is left and the connection is closed
SessionClosed == pc = "raised"

Unfinished(i) == StatusOf(i) \in {"running", "pending"}

Reported(line) == \E k \in 1..Len(ws_log) : ws_log[k] = line

\* C25 as stated: every exception other than a planning error, a failure of the
\* update channel included, is caught at the top level of the workflow: every running
\* or pending task becomes error, the fault is reported to the session, and the
\* session is then able to accept a new request.
C25_AsStatedStep ==
    (pc = "except_Exception" /\ pc' # pc) =>
        /\ \A i \in Steps : tasks_with_status'[i].status \notin {"running", "pending"}
        /\ ws_log' = Append(ws_log, LINE_FAULT)
        /\ AcceptsNewRequest'

C25_EveryFaultHandled == [](~SessionClosed) /\ [][C25_AsStatedStep]_vars

\* C25, amended: an exception other than a planning error that occurs while the
\* update channel is alive is caught at the top level: every running or pending task
\* becomes error and no other status changes, the fault is reported, the workflow
\* returns and the session can accept a new request.  When the update channel has
\* failed, the handler's own report raises: no status changes, nothing is reported,
\* the exception leaves the workflow and the session's connection is closed.
C25_FaultInv ==
    /\ SessionClosed => ~ws_connected
    /\ final_agent_message = MSG_UNEXPECTED =>
          /\ AcceptsNewRequest
          /\ Reported(LINE_FAULT)
          /\ \A i \in Steps : ~Unfinished(i)

C25_FaultStep ==
    /\ (pc = "except_Exception" /\ pc' # pc) =>
          IF ws_connected
          THEN /\ Len(tasks_with_status') = Len(tasks_with_status)
               /\ \A i \in Steps :
                     /\ tasks_with_status'[i].status =
                           IF Unfinished(i) THEN "error" ELSE StatusOf(i)
                     /\ tasks_with_status'[i].result = tasks_with_status[i].result
               /\ ws_log' = Append(ws_log, LINE_FAULT)
               /\ final_agent_message' = MSG_UNEXPECTED
               /\ AcceptsNewRequest'
          ELSE /\ SessionClosed'
               /\ UNCHANGED <<tasks_with_status, ws_log, final_agent_message, task_list_update>>
    /\ SessionClosed' => (pc = "except_Exception" \/ pc = "except_ValueError" \/ SessionClosed)

C25_FaultHandling == []C25_FaultInv /\ [][C25_FaultStep]_vars

\* an unexpected fault struck a connected session during the second attempt of a step:
\* the running task was turned to error, the fault was reported, the session goes on
C25_Witness ==
    /\ AcceptsNewRequest
    /\ final_agent_message = MSG_UNEXPECTED
    /\ Reported(LINE_FAULT)
    /\ Len(tasks_with_status) = 2
    /\ StatusOf(1) = "error" /\ tool_calls[1] = 1 /\ attempt = 1
    /\ StatusOf(2) = "error" /\ tool_calls[2] = 0
    /\ tasks_with_status[1].result = NoneStr

(* ----------------------------------------------------------------------- *)
(* C26: applying a correction never changes the plan's length or order     *)
(* and touches only the entry at the failing step's index, where only the  *)
(* description may change; no attempt and no correction ever changes a     *)
(* task's original_task record; and while a step is being retried no       *)
(* other task's description, status, result or final_executed_task changes.*)
(* ----------------------------------------------------------------------- *)
Retrying == pc \in {"attempt", "tool_running", "reviewing"}

C26_FrameStep ==
    /\ tasks_with_status # <<>> =>
          /\ Len(tasks_with_status') = Len(tasks_with_status)
          /\ \A i \in Steps :
                tasks_with_status'[i].original_task = tasks_with_status[i].original_task
    /\ Retrying =>
          /\ \A j \in Steps : j # idx => tasks_with_status'[j] = tasks_with_status[j]
          /\ tasks_with_status'[idx] =
                [tasks_with_status[idx] EXCEPT !.description = tasks_with_status'[idx].description]
          /\ tasks_with_status'[idx].description # tasks_with_status[idx].description =>
                /\ pc = "reviewing"
                /\ current_task_dict' # current_task_dict
                /\ tasks_with_status'[idx].description = current_task_dict'["description"]

C26_CorrectionFrame == [][C26_FrameStep]_vars

\* a correction with a new description was adopted for the second of two steps: the
\* displayed description changed, the original record and the first task did not
C26_Witness ==
    /\ Len(tasks_with_status) = 2
    /\ idx = 2
    /\ pc = "attempt"
    /\ attempt = 1
    /\ current_task_dict = K_fix
    /\ tasks_with_status[2].description = K_fix["description"]
    /\ tasks_with_status[2].original_task # K_fix
    /\ tasks_with_status[2].original_task["description"] # K_fix["description"]
    /\ StatusOf(1) = "done"

(* ----------------------------------------------------------------------- *)
(* C27                                                                     *)
(* ----------------------------------------------------------------------- *)
\* the step i was finished by the execution loop, and its recorded result is the
\* result returned by the latest tool invocation of that step
ResultFromInvocation(i) ==
    /\ Finished(i)
    /\ last_call.step = i
    /\ tool_calls[i] >= 1
    /\ Returned(last_call.result)
    /\ tasks_with_status[i].result = last_call.result

Adopts == pc = "reviewing" /\ pc' = "attempt"

C28_DescriptionStep ==
    Adopts =>
        /\ tool_calls' = tool_calls
        /\ IF current_task_dict'["description"] # tasks_with_status[idx].description
           THEN /\ tasks_with_status'[idx].description = current_task_dict'["description"]
                /\ updates_sent' = updates_sent + 1
                /\ task_list_update' = Payload(tasks_with_status')
                /\ task_list_update'[idx].description = current_task_dict'["description"]
           ELSE /\ updates_sent' = updates_sent
                /\ UNCHANGED <<task_list_update, tasks_with_status>>

C28_DescriptionInv ==
    (pc = "tool_running" /\ ws_connected) =>
        /\ tasks_with_status[idx].description = last_call.task["description"]
        /\ task_list_update[idx].description = last_call.task["description"]

C28_DescriptionUpdate == []C28_DescriptionInv /\ [][C28_DescriptionStep]_vars

\* a correction with a new description was adopted after the first attempt of the
\* first step: the third update (plan, running, description) shows the new description
\* and the corrected task has not been invoked yet
C28_Witness ==
    /\ pc = "attempt"
    /\ idx = 1
    /\ attempt = 1
    /\ tool_calls[1] = 1
    /\ current_task_dict = K_fix
    /\ tasks_with_status[1].original_task["description"] # K_fix["description"]
    /\ task_list_update[1].description = K_fix["description"]
    /\ updates_sent = 3

(* ----------------------------------------------------------------------- *)
(* C29: for a plan array of N task objects that each have a tool key,      *)
(* validation yields N tasks in the same order, and the initial task list  *)
(* has length N with every status pending, result null and                 *)
(* final_executed_task null; a single object with a tool key yields a list *)
(* of length 1; any other value that is not a list is rejected.            *)
(* ----------------------------------------------------------------------- *)
ValidPlanArray(reply) ==
    /\ reply.body = "list"
    /\ \A k \in 1..Len(reply.items) : IsDict(reply.items[k]) /\ Has(reply.items[k], "tool")

SingleTask(reply) == reply.body = "object" /\ Has(reply.items[1], "tool")

OtherNonList(reply) ==
    \/ reply.body = "scalar"
    \/ reply.body = "object" /\ ~Has(reply.items[1], "tool")

\* the task record made of a plan entry: the entry's own keys and values, plus a
\* description where the entry had none
MadeOf(task_info, item) ==
    /\ \A key \in DOMAIN item :
          (key # "description" \/ item[key] # "") => task_info.original_task[key] = item[key]
    /\ DOMAIN task_info.original_task = DOMAIN item \cup {"description"}
    /\ task_info.description = task_info.original_task["description"]
    /\ task_info.status = "pending"
    /\ task_info.result = NoneStr
    /\ task_info.final_executed_task = NoneDict

C29_PlanStep ==
    (pc = "planning" /\ pc' # pc) =>
        /\ ValidPlanArray(plan_json') =>
              /\ Len(tasks_with_status') = Len(plan_json'.items)
              /\ \A k \in 1..Len(plan_json'.items) :
                    MadeOf(tasks_with_status'[k], plan_json'.items[k])
              /\ pc' # "except_ValueError"
        /\ SingleTask(plan_json') =>
              /\ Len(tasks_with_status') = 1
              /\ MadeOf(tasks_with_status'[1], plan_json'.items[1])
              /\ pc' # "except_ValueError"
        /\ OtherNonList(plan_json') =>
              /\ tasks_with_status' = <<>>
              /\ pc' = "except_ValueError"

C29_PlanInv ==
    /\ (plan_json # NoReply /\ ValidPlanArray(plan_json)) =>
          /\ Len(tasks_with_status) = Len(plan_json.items)
          /\ \A k \in Steps :
                tasks_with_status[k].original_task["tool"] = plan_json.items[k]["tool"]
    /\ (plan_json # NoReply /\ OtherNonList(plan_json)) =>
          /\ tasks_with_status = <<>>
          /\ tool_calls = <<>>

C29_PlanToTasks == []C29_PlanInv /\ [][C29_PlanStep]_vars

\* a plan of two different tasks has just been turned into the task list
C29_Witness ==
    /\ pc = "loop"
    /\ idx = 1
    /\ plan_json = Reply("list", <<T_shell, T_code>>)
    /\ Len(tasks_with_status) = 2
    /\ MadeOf(tasks_with_status[1], T_shell)
    /\ MadeOf(tasks_with_status[2], T_code)
    /\ updates_sent = 1

(* ----------------------------------------------------------------------- *)
(* C30: an empty plan is valid and ends the workflow at once: after an     *)
(* empty task-list update no task is ever running, no tool is invoked, no  *)
(* correction is requested, and the run ends with the no-steps message,    *)
(* not reported as a planning error.                                       *)
(* ----------------------------------------------------------------------- *)
EmptyPlan(reply) == reply.body = "list" /\ reply.items = <<>>

C30_EmptyPlanInv ==
    (plan_json # NoReply /\ EmptyPlan(plan_json)) =>
        /\ tasks_with_status = <<>>
        /\ tool_calls = <<>>
        /\ correction_requests = <<>>
        /\ last_call = NoCall
        /\ planner_calls = 1
        /\ pc \in {"returned", "except_Exception", "raised"}
        /\ final_agent_message # MSG_PLANNING
        /\ ~Reported(LINE_PLAN_ERROR)
        /\ pc = "returned" =>
              /\ final_agent_message = MSG_NO_STEPS
              /\ task_list_update = <<>>
              /\ updates_sent = 1
        /\ pc # "returned" => ~ws_connected

C30_EmptyPlanStep ==
    (pc = "planning" /\ pc' # pc /\ EmptyPlan(plan_json') /\ ws_connected) =>
        /\ task_list_update' = <<>>
        /\ updates_sent' = updates_sent + 1
        /\ final_agent_message' = MSG_NO_STEPS
        /\ pc' = "returned"
        /\ UNCHANGED ws_log

C30_EmptyPlan == []C30_EmptyPlanInv /\ [][C30_EmptyPlanStep]_vars

\* the planner answered [] : the empty list was sent and the run has ended
C30_Witness ==
    /\ pc = "returned"
    /\ plan_json = Reply("list", <<>>)
    /\ final_agent_message = MSG_NO_STEPS
    /\ task_list_update = <<>>
    /\ updates_sent = 1
    /\ planner_calls = 1
    /\ ws_log = <<>>

(* ----------------------------------------------------------------------- *)
(* C31                                                                     *)
(* ----------------------------------------------------------------------- *)
\* prompt_template.py:40-42: the free-text fields a task carries
FREE_TEXT_FIELDS == {"description", "expected_output", "reasoning"}

\* this step adopts a correction of a task that carries all three fields
AdoptsOverFull == Adopts /\ FREE_TEXT_FIELDS \subseteq DOMAIN current_task_dict

\* C31 as stated: a corrected task that omits description, expected_output or
\* reasoning receives each missing field from the task it corrects, so the adopted
\* working copy carries all three fields.
C31_AsStatedStep ==
    AdoptsOverFull =>
        /\ FREE_TEXT_FIELDS \subseteq DOMAIN current_task_dict'
        /\ \A f \in FREE_TEXT_FIELDS :
              ~Has(corrected_json_str'.items[1], f) =>
                  current_task_dict'[f] = current_task_dict[f]

C31_FieldsInherited == [][C31_AsStatedStep]_vars

\* C31, the divergence: the adopted working copy has the description of the task it
\* corrects, which had all three fields, and neither expected_output nor reasoning
C31_Diverges ==
    /\ pc = "attempt"
    /\ attempt = 1
    /\ corrected_json_str = Reply("object", <<K_nodesc>>)
    /\ FREE_TEXT_FIELDS \subseteq DOMAIN tasks_with_status[idx].original_task
    /\ current_task_dict["description"] = tasks_with_status[idx].original_task["description"]
    /\ ~Has(current_task_dict, "expected_output")
    /\ ~Has(current_task_dict, "reasoning")

\* the part of C31 that the code keeps: a missing description is taken from the
\* task that is corrected
C31_DescriptionStep ==
    Adopts =>
        /\ Has(current_task_dict', "description")
        /\ ~Has(corrected_json_str'.items[1], "description") =>
              current_task_dict'["description"] = current_task_dict["description"]

C31_DescriptionInherited == [][C31_DescriptionStep]_vars

(* ----------------------------------------------------------------------- *)
(* C32                                                                     *)
(* ----------------------------------------------------------------------- *)
\* the planner's reply has been taken as a plan of the listed tasks
YieldsTasksOf(reply) ==
    /\ Len(tasks_with_status') = Len(reply.items)
    /\ \A k \in 1..Len(reply.items) :
          tasks_with_status'[k].original_task["tool"] = reply.items[k]["tool"]
    /\ pc' # "except_ValueError"

\* C32 as stated: when the response holds the closing delimiter, the plan candidate is
\* the list after it, or else the last [...] span of the whole response; a response of
\* reasoning + delimiter + valid plan list yields that plan's tasks.
C32_AsStatedStep ==
    (pc = "planning" /\ pc' # pc /\ plan_json'.body \in DelimitedBodies) =>
        YieldsTasksOf(plan_json')

C32_DelimiterExtraction == [][C32_AsStatedStep]_vars

\* C32, the divergence: the reply was reasoning, the closing delimiter and a valid
\* plan of one task; the run ended as a planning error with no task
C32_Diverges ==
    /\ pc = "returned"
    /\ plan_json = Reply("delimited", <<T_shell>>)
    /\ final_agent_message = MSG_PLANNING
    /\ Reported(LINE_PLAN_ERROR)
    /\ tasks_with_status = <<>>
    /\ tool_calls = <<>>

(* ----------------------------------------------------------------------- *)
(* C33                                                                     *)
(* ----------------------------------------------------------------------- *)
\* C33 as stated: the orchestrator only routes parameters: every attempt on a task
\* whose tool is registered invokes that tool with the task, and no step is failed by
\* the orchestrator itself over the content or absence of a parameter.
C33_AsStatedStep ==
    (pc = "attempt" /\ pc' # pc /\ ws_connected /\ ~UnknownTool(current_task_dict)) =>
        /\ pc' = "tool_running"
        /\ last_call'.task = current_task_dict
        /\ tool_calls' = [tool_calls EXCEPT ![idx] = @ + 1]
        /\ UNCHANGED step_result

C33_OnlyRoutes == [][C33_AsStatedStep]_vars

\* C33, the divergence: a step for the registered tool code_interpreter ended in error
\* without any invocation, over the absent code parameter
C33_Diverges ==
    /\ Len(tasks_with_status) >= 1
    /\ tasks_with_status[1].original_task = WithDescription(T_nocode, 1)
    /\ ~UnknownTool(tasks_with_status[1].original_task)
    /\ StatusOf(1) = "error"
    /\ tool_calls[1] = 0
    /\ correction_requests[1] = 0
    /\ tasks_with_status[1].result = UnhandledResult("code")

(* ----------------------------------------------------------------------- *)
(* C34: every failure outcome of browse_website (no runner script, no      *)
(* model, a subprocess that exits with a non-zero code, the timeout,       *)
(* output that is no JSON, an error key in the runner's JSON, an           *)
(* unexpected exception) is returned as a string that starts with          *)
(* "Error:"; with the client connected the invocation does not raise; and  *)
(* every such string is classified as a failure by the orchestrator.       *)
(* ----------------------------------------------------------------------- *)
ERROR_PREFIX == <<"E", "r", "r", "o", "r", ":">>

StartsWith(cs, prefix) ==
    Len(cs) >= Len(prefix) /\ SubSeq(cs, 1, Len(prefix)) = prefix

\* the strings browse_website returns for its failure outcomes
BrowseFailures ==
    { browse_website(o) : o \in { b \in BrowseOutcomes : IsFailureOutcome(b) } }
    \cup { TIMEOUT_RESULT }

IsBrowseCall == last_call # NoCall /\ last_call.task["tool"] = "browser"

C34_BrowseInv ==
    /\ (pc = "tool_running" /\ family = "browse") =>
          \A r \in BrowseFailures :
              /\ StartsWith(Chars(r), ERROR_PREFIX)
              /\ HasErrorIndicator(r) /\ ReviewIsError(r) /\ FinalStatusIsError(r)
    /\ (family = "browse" /\ IsBrowseCall /\ Returned(last_call.result)) =>
          /\ last_call.result \in BrowseFailures \/ last_call.result = "hello"
          /\ last_call.result \in BrowseFailures =>
                /\ StartsWith(Chars(last_call.result), ERROR_PREFIX)
                /\ pc \notin {"except_Exception", "raised"} => step_result = last_call.result
                /\ Finished(last_call.step) => StatusOf(last_call.step) = "error"

C34_BrowseStep ==
    (pc = "tool_running" /\ IsBrowseCall /\ ws_connected /\ pc' # pc) =>
        /\ Returned(last_call'.result)
        /\ pc' # "except_Exception"
        /\ step_result' = last_call'.result

C35_ModelInv == planner_calls >= 1 => simple_prompt_model = selected_model

\* a correction request goes to the model the planning call went to
C35_CorrectionStep ==
    (pc = "tool_running" /\ pc' = "reviewing") =>
        /\ planner_calls' = planner_calls + 1
        /\ simple_prompt_model' = simple_prompt_model

C35_SelectedModel == []C35_ModelInv /\ [][C35_CorrectionStep]_vars

\* the request named a planner model, the plan was made by it, and the correction
\* of the first step's failure has been asked of the configured model
C35_Diverges ==
    /\ pc = "reviewing"
    /\ selected_model = CLIENT_PLANNER_MODEL
    /\ planner_calls = 2
    /\ correction_requests[idx] = 1
    /\ simple_prompt_model = PLANNING_TOOLING_MODEL
    /\ simple_prompt_model # selected_model

\* what the code does keep: the planning call goes to the selected model, every
\* correction to the configured one
C35_PlanningModelStep ==
    /\ (pc = "planning" /\ pc' # pc /\ planner_calls' = planner_calls + 1) =>
          simple_prompt_model' = selected_model
    /\ (pc = "tool_running" /\ pc' = "reviewing") =>
          simple_prompt_model' = PLANNING_TOOLING_MODEL

C35_ModelsUsed == [][C35_PlanningModelStep]_vars

(* ----------------------------------------------------------------------- *)
(* C36: in every state of a workflow in which no unexpected fault occurred *)
(* the statuses in plan order are Done*, then at most one task that is     *)
(* Running or Error, then Pending*: a task is never Running or finished    *)
(* while an earlier task is Pending, Running or Error.                     *)
(* ----------------------------------------------------------------------- *)
\* the number of leading tasks that are done
DonePrefix ==
    Cardinality({ i \in Steps : \A j \in 1..i : StatusOf(j) = "done" })

C36_StatusShape ==
    /\ \A i, j \in Steps :
          (i < j /\ StatusOf(j) # "pending") => StatusOf(i) = "done"
    /\ \A i \in Steps :
          /\ i <= DonePrefix => StatusOf(i) = "done"
          /\ i = DonePrefix + 1 => StatusOf(i) \in {"running", "error", "pending"}
          /\ i > DonePrefix + 1 => StatusOf(i) = "pending"

\* two steps done, the third ended in error, the fourth never started
C36_Witness ==
    /\ pc = "returned"
    /\ Len(tasks_with_status) >= 4
    /\ StatusOf(1) = "done" /\ StatusOf(2) = "done"
    /\ StatusOf(3) = "error"
    /\ StatusOf(4) = "pending"
    /\ DonePrefix = 2

\* the other shape: a step is running behind a done one, the rest pending
C36_RunningWitness ==
    /\ pc = "tool_running"
    /\ Len(tasks_with_status) >= 3
    /\ StatusOf(1) = "done" /\ StatusOf(2) = "running" /\ StatusOf(3) = "pending"

(* ----------------------------------------------------------------------- *)
(* C37: a task has status Done only if its recorded result is non-null, is *)
(* the raw result of the last tool invocation made for that task, and is   *)
(* classified as success; a task whose last attempt result is classified   *)
(* as failure never ends with status Done.                                 *)
(* ----------------------------------------------------------------------- *)
C37_DoneInv ==
    \A i \in Steps :
        StatusOf(i) = "done" =>
            /\ tasks_with_status[i].result # NoneStr
            /\ Returned(tasks_with_status[i].result)
            /\ tasks_with_status[i].result # DEFAULT_STEP_RESULT
            /\ ~HasErrorIndicator(tasks_with_status[i].result)
            /\ ~FinalStatusIsError(tasks_with_status[i].result)
            /\ tool_calls[i] >= 1
            /\ last_call.step >= i
            /\ last_call.step = i => tasks_with_status[i].result = last_call.result

\* the step that is being finished
C37_FinishStep ==
    /\ (pc = "after_loop" /\ executed_step_count' = executed_step_count + 1 /\ tasks_with_status'[idx].status = "done") =>
          /\ last_call.step = idx
          /\ tool_calls[idx] >= 1
          /\ Returned(last_call.result)
          /\ tasks_with_status'[idx].result = last_call.result
          /\ ~HasErrorIndicator(last_call.result)
    /\ (pc = "after_loop" /\ executed_step_count' = executed_step_count + 1 /\ HasErrorIndicator(step_result)) =>
          tasks_with_status'[idx].status = "error"
    /\ \A i \in Steps :
          StatusOf(i) = "done" =>
              /\ tasks_with_status'[i].status = "done"
              /\ tasks_with_status'[i].result = tasks_with_status[i].result

C37_DoneOnlyOnSuccess == []C37_DoneInv /\ [][C37_FinishStep]_vars

\* a step is done on its third invocation, after two failed attempts whose
\* corrections were adopted; the recorded result is that invocation's
C37_Witness ==
    /\ Len(tasks_with_status) >= 1
    /\ StatusOf(1) = "done"
    /\ last_call.step = 1
    /\ tool_calls[1] = MAX_RETRIES + 1
    /\ correction_requests[1] = MAX_RETRIES
    /\ tasks_with_status[1].result = last_call.result
    /\ ~FinalStatusIsError(last_call.result)

(* ----------------------------------------------------------------------- *)
(* C38: provided every planner call and every tool invocation eventually   *)
(* returns or raises, every started workflow eventually reaches a terminal *)
(* state and hands control back to the session, after at most              *)
(* MAX_WORKFLOW_STEPS * (MAX_RETRIES + 1) tool invocations and at most     *)
(* 1 + MAX_WORKFLOW_STEPS * MAX_RETRIES planner calls.                     *)
(* ----------------------------------------------------------------------- *)
RECURSIVE SumOver(_, _)
SumOver(f, n) == IF n = 0 THEN 0 ELSE f[n] + SumOver(f, n - 1)

\* tool collaborator invocations made by the workflow so far
ToolInvocations == SumOver(tool_calls, Len(tool_calls))

\* correction prompts sent by the workflow so far
CorrectionsAsked == SumOver(correction_requests, Len(correction_requests))

\* the tasks the execution loop has entered
StartedSteps == { i \in DOMAIN tool_calls : tool_calls[i] > 0 \/ StatusOf(i) # "pending" }

C38_Bounds ==
    /\ ToolInvocations <= MAX_WORKFLOW_STEPS * (MAX_RETRIES + 1)
    /\ planner_calls <= 1 + MAX_WORKFLOW_STEPS * MAX_RETRIES
    /\ Cardinality(StartedSteps) <= MAX_WORKFLOW_STEPS
    /\ \A i \in DOMAIN tool_calls :
          /\ tool_calls[i] <= MAX_RETRIES + 1
          /\ correction_requests[i] <= MAX_RETRIES
    /\ planner_calls <= 1 + CorrectionsAsked
    /\ planner_calls >= 1 => planner_calls = 1 + CorrectionsAsked

\* with the client there to the end, the workflow ends by returning
C38_ReturnsToSession == (Terminated /\ ws_connected) => pc = "returned"

C38_Terminates == <>Terminated /\ []C38_Bounds /\ []C38_ReturnsToSession

\* the workflow has returned after running into the step budget with a plan longer
\* than the budget: MAX_WORKFLOW_STEPS steps were executed, one invocation each
C38_Witness ==
    /\ pc = "returned"
    /\ ws_connected
    /\ Len(tasks_with_status) > MAX_WORKFLOW_STEPS
    /\ executed_step_count = MAX_WORKFLOW_STEPS
    /\ Cardinality(StartedSteps) = MAX_WORKFLOW_STEPS
    /\ ToolInvocations = MAX_WORKFLOW_STEPS
    /\ planner_calls = 1

\* the per-step share of the bounds is used up: a step took MAX_RETRIES + 1
\* invocations and MAX_RETRIES corrections before the workflow returned
C38_RetriesWitness ==
    /\ pc = "returned"
    /\ \E i \in DOMAIN tool_calls :
          tool_calls[i] = MAX_RETRIES + 1 /\ correction_requests[i] = MAX_RETRIES
    /\ planner_calls = 1 + MAX_RETRIES

(* ----------------------------------------------------------------------- *)
(* C39: within one session at most one workflow is active at any time: a   *)
(* request received on the session is not read until the workflow of the   *)
(* previous request has returned, requests are served in arrival order,    *)
(* and a message that is not valid JSON or has an empty query starts no    *)
(* workflow and leaves the session open for the next message.              *)
(* ----------------------------------------------------------------------- *)
\* a call of handle_agent_workflow is awaited at main.py:75
WorkflowActive == pc \notin {"idle", "raised"}

\* receive_text returns a message in this step
Reads == served' # served

C39_SessionInv ==
    /\ WorkflowActive => session = "workflow"
    /\ session = "receiving" => pc = "idle"
    /\ session = "workflow" =>
          /\ served # <<>>
          /\ served[Len(served)].kind = "query"
    /\ \A i \in DOMAIN served : served[i].id = i
    /\ \A i \in DOMAIN inbox : inbox[i].id = Len(served) + i

C39_SessionStep ==
    /\ Reads =>
          /\ ~WorkflowActive
          /\ session = "receiving"
          /\ inbox # <<>>
          /\ served' = Append(served, Head(inbox))
          /\ inbox' = Tail(inbox)
    /\ (Reads /\ Head(inbox).kind = "query") =>
          /\ pc' = "start"
          /\ session' = "workflow"
    /\ (Reads /\ Head(inbox).kind \in {"invalid_json", "empty_query"}) =>
          /\ pc' = "idle"
          /\ planner_calls' = 0 /\ tool_calls' = <<>>
          /\ ws_connected => session' = "receiving"
    /\ (pc = "idle" /\ pc' # "idle") => (Reads /\ Head(inbox).kind = "query")
    /\ (WorkflowActive /\ session' = "receiving") => pc = "returned"

C39_OneWorkflowAtATime == []C39_SessionInv /\ [][C39_SessionStep]_vars

\* a second request arrived while the workflow of the first was running and was read
\* after it had returned; its workflow is now awaiting the tool
C39_Witness ==
    /\ Len(served) = 2
    /\ served[1].kind = "query" /\ served[2].kind = "query"
    /\ session = "workflow"
    /\ pc = "tool_running"
    /\ tool_calls = <<1, 0>>
    /\ inbox # <<>>

\* invalid JSON and an empty query were read around a request whose workflow has
\* returned; the session is still at receive_text
C39_OpenWitness ==
    /\ Len(served) = MaxMessages
    /\ served[1].kind = "invalid_json"
    /\ served[2].kind = "query"
    /\ served[3].kind = "empty_query"
    /\ session = "receiving"
    /\ ws_connected
    /\ pc = "idle"

=============================================================================
